---- MODULE Spec2Model ----
(***************************************************************************)
(* A model of docstrfmt, a formatter for reStructuredText documents and    *)
(* docstrings.  Text is modelled character by character: a string is a     *)
(* sequence of one-character strings, a line is a string, an output is a   *)
(* sequence of lines.  The document tree is a tree of records.             *)
(***************************************************************************)
EXTENDS Integers, Sequences, FiniteSets, TLC

VARIABLES
    source_tree,  \* the document tree as the parser built it
    tree,         \* the document tree, preprocessed in place by Manager._pre_process
    pre_pc,       \* "parsed", then "preprocessed" or "raised" (InvalidRstErrors)
    pre_errors,   \* the batch of errors carried by the raised InvalidRstErrors
    error_count,  \* Manager.error_count
    cli_pc,       \* where the command line run stands
    argv,         \* the run's inputs: -l, and the line-length keys of pyproject.toml
    default_map,  \* click's context.default_map["line_length"]
    params,       \* click's context.params["line_length"]
    mode,         \* black's Mode.line_length
    line_length,  \* the line_length main() works with
    formatted_at, \* the widths documents were formatted at by this run
    doc_pc,       \* where the format run stands: "parsed", "formatted" or "raised"
    width,        \* the width given to Manager.format_node
    doc,          \* the document tree in the hands of the Manager
    output,       \* the string Manager.format_node returned last
    raised,       \* the exception that ended the run, <<>> while there is none
    passes,       \* the calls of format_node so far: the tree given, what it returned
    table_pc,       \* where the table run stands: "parsed", then "formatted"
    table,          \* the table node: its heading rows and its body rows
    table_context,  \* the context Formatters.table is given
    column_lengths, \* the width granted to each column by the compression loop
    final_widths,   \* context.column_widths, the widths the rows are rendered at
    table_lines,    \* the lines Formatters.table yielded
    adorn_pc,       \* where the run on a raw input stands
    adorn_argv,     \* the run's inputs: -s and -pA
    adorn_doc,      \* the document parsed from the raw input
    adorn_params,   \* click's context.params["section_adornments"]
    adorn_manager,  \* the Manager of the run: its section_adornments
    adorn_output,   \* the string the run printed, <<>> while there is none
    adorn_reported, \* the messages given to reporter.error
    ctx_pc,         \* where the rendering of a list stands
    ctx_node,       \* the list node being rendered
    ctx_objects,    \* the FormatContext objects alive, in the order of their creation
    ctx_item,       \* the number of list items rendered so far
    ctx_entry,      \* the fields of the context each list_item call was given
    ctx_lines,      \* the lines the list yielded so far
    run_pc,         \* where the run over several files stands
    run_args,       \* the options of the run: check, raw_output
    run_before,     \* the content of every file when the run began
    run_disk,       \* the content of every file on disk
    run_cache,      \* the files whose cache entry matches the file on disk
    run_workers,    \* the executor's call of _format_file for every file
    run_futures,    \* the asyncio future of every file's task
    run_tasks,      \* the files whose task is still in the tasks dictionary (in_process)
    run_totals,     \* the locals of _run_formatter and the number of cache writes
    run_signals,    \* the number of SIGINT/SIGTERM signals delivered
    cache_pc,       \* where the sequence of runs sharing a cache directory stands
    cache_params,   \* the click parameters of the run under way
    cache_files,    \* the files on disk: what they hold and their mtime
    cache_dir,      \* the cache directory: the pickled dictionary under every cache file name
    cache_loaded,   \* the dictionary FileCache read when the run began
    cache_reports,  \* what every finished run did: its parameters, the files it skipped, cached and reported
    wrap_pc,        \* where the call of _wrap_text stands
    wrap_width,     \* the width the call is given: None or a number
    wrap_items,     \* the inline items the call is given
    wrap_context,   \* the context the call is given
    wrap_lines,     \* the lines the call yielded
    ds_pc,          \* position of the docstring formatting call
    ds_doc,         \* the document tree of the docstring
    ds_docstring,   \* the is_docstring argument of format_node
    ds_width,       \* the width argument of format_node
    ds_widths,      \* the width each paragraph was wrapped at, in document order
    nest_pc,        \* position of the rendering of a document with nested content
    nest_blocks,    \* the top-level blocks of the enclosing document
    nest_text,      \* the text of the enclosing document
    nest_offset,    \* the line offset of the enclosing document
    nest_docstring, \* whether the enclosing document is a docstring
    nest_manager,   \* original_text, current_offset and _in_docstring of the Manager
    nest_index,     \* the number of top-level blocks rendered
    py_pc,          \* position of the processing of a Python file
    py_args,        \* the check and raw_output options of the run
    py_docstrings,  \* the docstrings of the file, in the order of the file
    py_index,       \* the number of docstrings the visitor has left
    py_visitor,     \* the Visitor of the file
    py_errors       \* the error count _format_file returns for the file

varsPre == <<source_tree, tree, pre_pc, pre_errors, error_count>>
varsCli == <<cli_pc, argv, default_map, params, mode, line_length, formatted_at>>
varsDoc == <<doc_pc, width, doc, output, raised, passes>>
varsTable == <<table_pc, table, table_context, column_lengths, final_widths, table_lines>>
varsAdorn == <<adorn_pc, adorn_argv, adorn_doc, adorn_params, adorn_manager, adorn_output, adorn_reported>>
varsCtx == <<ctx_pc, ctx_node, ctx_objects, ctx_item, ctx_entry, ctx_lines>>
varsRun == <<run_pc, run_args, run_before, run_disk, run_cache, run_workers, run_futures, run_tasks, run_totals, run_signals>>
varsCache == <<cache_pc, cache_params, cache_files, cache_dir, cache_loaded, cache_reports>>
varsWrap == <<wrap_pc, wrap_width, wrap_items, wrap_context, wrap_lines>>
varsDs == <<ds_pc, ds_doc, ds_docstring, ds_width, ds_widths>>
varsNest == <<nest_pc, nest_blocks, nest_text, nest_offset, nest_docstring, nest_manager, nest_index>>
varsPy == <<py_pc, py_args, py_docstrings, py_index, py_visitor, py_errors>>
vars == <<varsPre, varsCli, varsDoc, varsTable, varsAdorn, varsCtx, varsRun, varsCache, varsWrap, varsDs, varsNest, varsPy>>

(***************************************************************************)
(* Each specification below runs one part of the program; the variables of *)
(* the other parts rest at these values.                                   *)
(***************************************************************************)
IdlePre ==
    /\ source_tree = <<>>
    /\ tree = <<>>
    /\ pre_pc = "idle"
    /\ pre_errors = <<>>
    /\ error_count = 0

IdleCli ==
    /\ cli_pc = "idle"
    /\ argv = <<>>
    /\ default_map = <<>>
    /\ params = <<>>
    /\ mode = 0
    /\ line_length = <<>>
    /\ formatted_at = {}

IdleDoc ==
    /\ doc_pc = "idle"
    /\ width = 0
    /\ doc = <<>>
    /\ output = <<>>
    /\ raised = <<>>
    /\ passes = <<>>

IdleTable ==
    /\ table_pc = "idle"
    /\ table = <<>>
    /\ table_context = <<>>
    /\ column_lengths = <<>>
    /\ final_widths = <<>>
    /\ table_lines = <<>>

IdleAdorn ==
    /\ adorn_pc = "idle"
    /\ adorn_argv = <<>>
    /\ adorn_doc = <<>>
    /\ adorn_params = <<>>
    /\ adorn_manager = <<>>
    /\ adorn_output = <<>>
    /\ adorn_reported = <<>>

IdleCtx ==
    /\ ctx_pc = "idle"
    /\ ctx_node = <<>>
    /\ ctx_objects = <<>>
    /\ ctx_item = 0
    /\ ctx_entry = <<>>
    /\ ctx_lines = <<>>

IdleRun ==
    /\ run_pc = "idle"
    /\ run_args = <<>>
    /\ run_before = <<>>
    /\ run_disk = <<>>
    /\ run_cache = {}
    /\ run_workers = <<>>
    /\ run_futures = <<>>
    /\ run_tasks = {}
    /\ run_totals = <<>>
    /\ run_signals = 0

IdleCache ==
    /\ cache_pc = "idle"
    /\ cache_params = <<>>
    /\ cache_files = <<>>
    /\ cache_dir = <<>>
    /\ cache_loaded = {}
    /\ cache_reports = <<>>

IdleWrap ==
    /\ wrap_pc = "idle"
    /\ wrap_width = <<>>
    /\ wrap_items = <<>>
    /\ wrap_context = <<>>
    /\ wrap_lines = <<>>

IdleDs ==
    /\ ds_pc = "idle"
    /\ ds_doc = <<>>
    /\ ds_docstring = FALSE
    /\ ds_width = 0
    /\ ds_widths = <<>>

IdleNest ==
    /\ nest_pc = "idle"
    /\ nest_blocks = <<>>
    /\ nest_text = <<>>
    /\ nest_offset = 0
    /\ nest_docstring = FALSE
    /\ nest_manager = <<>>
    /\ nest_index = 0

IdlePy ==
    /\ py_pc = "idle"
    /\ py_args = <<>>
    /\ py_docstrings = <<>>
    /\ py_index = 0
    /\ py_visitor = <<>>
    /\ py_errors = 0

(***************************************************************************)
(* Bounds of the model.                                                    *)
(***************************************************************************)
MaxChildren == 4

(***************************************************************************)
(* Generic sequence helpers.                                               *)
(***************************************************************************)
RECURSIVE Flatten(_)
Flatten(ss) == IF ss = <<>> THEN <<>> ELSE Head(ss) \o Flatten(Tail(ss))

SeqsUpTo(S, n) == UNION {[1..k -> S] : k \in 0..n}

(***************************************************************************)
(* Document tree nodes as Manager._pre_process sees them.  Every node is a *)
(* record of the same shape; fields a kind does not use stay empty.        *)
(*   kind   : the docutils node class                                      *)
(*   names  : attributes["names"], a list of names (names are numbers      *)
(*            ordered as the strings they stand for)                       *)
(*   uid    : the identity of the node object                              *)
(*   level  : attributes["type"] of a system_message                       *)
(*   msg    : the message text of a system_message                         *)
(*   target : attributes["target"] of a reference, <<>> when unset, else   *)
(*            <<uid of the target node>>                                   *)
(*   kids   : node.children                                                *)
(***************************************************************************)
Node(kind, names, uid, level, msg, kids) ==
    [kind |-> kind, names |-> names, uid |-> uid, level |-> level,
     msg |-> msg, target |-> <<>>, kids |-> kids]

Target(names, uid) == Node("target", names, uid, "", "", <<>>)
Paragraph(uid) == Node("paragraph", <<>>, uid, "", "", <<>>)
Reference(uid) == Node("reference", <<>>, uid, "", "", <<>>)
SystemMessage(level, msg, uid) == Node("system_message", <<>>, uid, level, msg, <<>>)
Section(uid, kids) == Node("section", <<>>, uid, "", "", kids)
Document(kids) == Node("document", <<>>, 0, "", "", kids)

\* IgnoreMessagesReporter.ignored_messages
ignored_messages == {"Title overline too short.", "Title underline too short."}

(***************************************************************************)
(* Python's comparison of two lists of names: the first differing element  *)
(* decides, and a proper prefix is smaller.                                *)
(***************************************************************************)
RECURSIVE ListLess(_, _)
ListLess(a, b) ==
    IF b = <<>> THEN FALSE
    ELSE IF a = <<>> THEN TRUE
    ELSE IF Head(a) # Head(b) THEN Head(a) < Head(b)
    ELSE ListLess(Tail(a), Tail(b))

(***************************************************************************)
(* sorted(run, key=lambda t: t.attributes["names"]): a stable sort.  Each  *)
(* element is inserted behind every element whose key is not greater.      *)
(***************************************************************************)
RECURSIVE InsertStable(_, _)
InsertStable(sortedRun, t) ==
    IF sortedRun = <<>> THEN <<t>>
    ELSE IF ListLess(t.names, Head(sortedRun).names)
         THEN <<t>> \o sortedRun
         ELSE <<Head(sortedRun)>> \o InsertStable(Tail(sortedRun), t)

RECURSIVE InsertUnstable(_, _)
InsertUnstable(sortedRun, t) ==
    IF sortedRun = <<>> THEN <<t>>
    ELSE IF ~ListLess(Head(sortedRun).names, t.names)
         THEN <<t>> \o sortedRun
         ELSE <<Head(sortedRun)>> \o InsertUnstable(Tail(sortedRun), t)

Insert(sortedRun, t) == InsertStable(sortedRun, t)

RECURSIVE sorted(_)
sorted(run) ==
    IF run = <<>> THEN <<>>
    ELSE Insert(sorted(SubSeq(run, 1, Len(run) - 1)), run[Len(run)])

(***************************************************************************)
(* The scan of Manager._pre_process over chain(node.children, [None]).     *)
(* i is the 1-based position in that chain (Len(kids) + 1 is the None at   *)
(* its end); start is the 1-based start of the current run, 0 for None.    *)
(***************************************************************************)
RECURSIVE SortTargetRuns(_, _, _)
SortTargetRuns(kids, i, start) ==
    IF i > Len(kids) + 1 THEN kids
    ELSE LET in_run == start # 0
             is_target == i <= Len(kids) /\ kids[i].kind = "target"
         IN IF in_run /\ ~is_target
            THEN SortTargetRuns(
                     SubSeq(kids, 1, start - 1)
                         \o sorted(SubSeq(kids, start, i - 1))
                         \o SubSeq(kids, i, Len(kids)),
                     i + 1, 0)
            ELSE IF ~in_run /\ is_target
                 THEN SortTargetRuns(kids, i + 1, i)
                 ELSE SortTargetRuns(kids, i + 1, start)

(***************************************************************************)
(* for reference, target in pairwise(node.children): a reference directly  *)
(* followed by a target gets that target object as attributes["target"].   *)
(***************************************************************************)
LinkReferences(kids) ==
    [i \in 1..Len(kids) |->
        IF /\ i < Len(kids)
           /\ kids[i].kind = "reference"
           /\ kids[i + 1].kind = "target"
        THEN [kids[i] EXCEPT !.target = <<kids[i + 1].uid>>]
        ELSE kids[i]]

\* A batch that stops at the first offending child.
PreErrorsFirstOnly(node) ==
    IF \E i \in 1..Len(node.kids) :
          /\ node.kids[i].kind = "system_message"
          /\ node.kids[i].level # "INFO"
          /\ node.kids[i].msg \notin ignored_messages
    THEN <<node.kids[CHOOSE i \in 1..Len(node.kids) :
                        /\ node.kids[i].kind = "system_message"
                        /\ node.kids[i].level # "INFO"
                        /\ node.kids[i].msg \notin ignored_messages
                        /\ \A j \in 1..(i - 1) :
                              ~(/\ node.kids[j].kind = "system_message"
                                /\ node.kids[j].level # "INFO"
                                /\ node.kids[j].msg \notin ignored_messages)]>>
    ELSE <<>>

\* The children that make _pre_process raise: system messages that are not
\* INFO and whose text is not an ignored message.
PreErrors(node) ==
    SelectSeq(node.kids,
              LAMBDA c : /\ c.kind = "system_message"
                         /\ c.level # "INFO"
                         /\ c.msg \notin ignored_messages)

StripSystemMessages(kids) ==
    SelectSeq(kids, LAMBDA c : c.kind # "system_message")

(***************************************************************************)
(* Manager._pre_process(node): raise the batch of errors of this node, or  *)
(* strip the system messages, link the references, sort the runs of        *)
(* targets and recurse into the children in order; the first child that    *)
(* raises ends the walk.  The result is                                    *)
(*   [raised, node, errors, count] : whether InvalidRstErrors was raised,  *)
(*   the tree as left behind, the batch raised, the rise of error_count.   *)
(***************************************************************************)
RECURSIVE pre_process(_)
RECURSIVE PreProcessKids(_, _)
PreProcessKids(kids, i) ==
    IF i > Len(kids) THEN [raised |-> FALSE, kids |-> kids, errors |-> <<>>, count |-> 0]
    ELSE LET r == pre_process(kids[i])
             kids1 == [kids EXCEPT ![i] = r.node]
         IN IF r.raised
            THEN [raised |-> TRUE, kids |-> kids1, errors |-> r.errors, count |-> r.count]
            ELSE PreProcessKids(kids1, i + 1)

pre_process(node) ==
    LET errors == PreErrors(node)
    IN IF errors # <<>>
       THEN [raised |-> TRUE, node |-> node,
             errors |-> [i \in 1..Len(errors) |->
                            [level |-> errors[i].level, message |-> errors[i].msg,
                             uid |-> errors[i].uid]],
             count |-> Len(errors)]
       ELSE LET stripped == StripSystemMessages(node.kids)
                linked == LinkReferences(stripped)
                sortedKids == SortTargetRuns(linked, 1, 0)
                rec == PreProcessKids(sortedKids, 1)
            IN [raised |-> rec.raised, node |-> [node EXCEPT !.kids = rec.kids],
                errors |-> rec.errors, count |-> rec.count]

(***************************************************************************)
(* The trees preprocessing is run on: a document whose children are drawn  *)
(* from targets (anonymous and named, equal names with different           *)
(* identities), references, paragraphs, ignorable diagnostics and one      *)
(* section holding a run of targets that ends with the children.           *)
(***************************************************************************)
PreLeaves ==
    { Target(<<>>, 1), Target(<<>>, 2), Target(<<1>>, 3), Target(<<2>>, 4),
      Target(<<1>>, 5), Paragraph(6), Reference(7),
      SystemMessage("INFO", "Duplicate implicit target name", 8) }

PreSections ==
    { Section(9, <<Paragraph(10), Target(<<2>>, 11), Target(<<>>, 12), Target(<<2>>, 13)>>),
      Section(9, <<SystemMessage("ERROR", "Unknown target name", 14)>>),
      Section(9, <<SystemMessage("ERROR", "Unknown target name", 14),
                   SystemMessage("WARNING", "Title underline too short.", 15),
                   SystemMessage("INFO", "Duplicate implicit target name", 16),
                   SystemMessage("SEVERE", "Unexpected section title.", 17)>>),
      Section(9, <<SystemMessage("WARNING", "Title overline too short.", 15), Paragraph(10)>>) }

DistinctUids(kids) ==
    \A i, j \in 1..Len(kids) : i # j => kids[i].uid # kids[j].uid

PreTrees ==
    { Document(kids) : kids \in { k \in SeqsUpTo(PreLeaves \cup PreSections, MaxChildren) :
                                      DistinctUids(k) } }

InitPre ==
    /\ IdleCli
    /\ IdleDoc
    /\ IdleTable
    /\ IdleAdorn
    /\ IdleCtx
    /\ IdleRun
    /\ IdleCache
    /\ IdleWrap
    /\ IdleDs
    /\ IdleNest
    /\ IdlePy
    /\ source_tree \in PreTrees
    /\ tree = source_tree
    /\ pre_pc = "parsed"
    /\ pre_errors = <<>>
    /\ error_count = 0


\* Manager.parse_string, the preprocessing it runs on the freshly parsed tree.
PreProcess ==
    /\ pre_pc = "parsed"
    /\ LET r == pre_process(tree)
       IN /\ tree' = r.node
          /\ pre_pc' = IF r.raised THEN "raised" ELSE "preprocessed"
          /\ pre_errors' = r.errors
          /\ error_count' = error_count + r.count
          /\ UNCHANGED <<source_tree, varsCli, varsDoc, varsTable, varsAdorn, varsCtx, varsRun, varsCache, varsWrap, varsDs, varsNest, varsPy>>

NextPre == PreProcess

SpecPre == InitPre /\ [][NextPre]_vars

(***************************************************************************)
(* The command line run: how the line length reaches the formatter.        *)
(* An optional integer is a sequence: <<>> is None, <<n>> is n.            *)
(***************************************************************************)
None == <<>>
Some(n) == <<n>>

\* const.DEFAULT_LINE_LENGTH, also black's default Mode.line_length
DEFAULT_LINE_LENGTH == 88
\* the lower end of click.IntRange(4), the type of -l/--line-length
MinLineLength == 4
\* the line lengths a run is given lie in 0..MaxLineLength or are the default
MaxLineLength == 6

LineLengths == (0..MaxLineLength) \cup {DEFAULT_LINE_LENGTH}
OptLineLengths == {None} \cup {Some(n) : n \in LineLengths}

InitCli ==
    /\ IdlePre
    /\ IdleDoc
    /\ IdleTable
    /\ IdleAdorn
    /\ IdleCtx
    /\ IdleRun
    /\ IdleCache
    /\ IdleWrap
    /\ IdleDs
    /\ IdleNest
    /\ IdlePy
    /\ cli_pc = "start"
    /\ argv \in [l : OptLineLengths,              \* -l N on the command line
                 docstrfmt : OptLineLengths,      \* [tool.docstrfmt] line-length
                 black : OptLineLengths]          \* [tool.black] line-length
    /\ default_map = None
    /\ params = None
    /\ mode = DEFAULT_LINE_LENGTH
    /\ line_length = None
    /\ formatted_at = {}


(***************************************************************************)
(* _parse_pyproject_config, the callback of the eager option -p: the keys  *)
(* of [tool.docstrfmt] become context.params and context.default_map, and  *)
(* black's configuration becomes the Mode.                                 *)
(***************************************************************************)
ParsePyprojectConfig ==
    /\ cli_pc = "start"
    /\ cli_pc' = "config"
    /\ default_map' = argv.docstrfmt
    /\ params' = argv.docstrfmt
    /\ mode' = IF argv.black = None THEN DEFAULT_LINE_LENGTH ELSE argv.black[1]
    /\ UNCHANGED <<argv, line_length, formatted_at, varsPre, varsDoc, varsTable, varsAdorn, varsCtx, varsRun, varsCache, varsWrap, varsDs, varsNest, varsPy>>

\* click.IntRange(4).convert: the value is refused when below the minimum.
IntRangeAccepts(value) == value = None \/ value[1] >= MinLineLength

\* value or pyproject_line_length
Or(value, other) == IF value # None /\ value[1] # 0 THEN value ELSE other

(***************************************************************************)
(* The option -l/--line-length: click takes the value of the command line, *)
(* else that of the default map, converts it with IntRange(4) and calls    *)
(* _resolve_length, which pops the pyproject value from context.params.    *)
(***************************************************************************)
ResolveLength ==
    /\ cli_pc = "config"
    /\ LET value == IF argv.l # None THEN argv.l ELSE default_map
       IN IF ~IntRangeAccepts(value)
          THEN /\ cli_pc' = "usage_error"
               /\ UNCHANGED <<params, line_length>>
          ELSE /\ cli_pc' = "options"
               /\ params' = None
               /\ line_length' = Or(value, params)
    /\ UNCHANGED <<argv, default_map, mode, formatted_at, varsPre, varsDoc, varsTable, varsAdorn, varsCtx, varsRun, varsCache, varsWrap, varsDs, varsNest, varsPy>>

(***************************************************************************)
(* main: with no line length so far the one of black's Mode is taken; the  *)
(* files are then formatted at that line length.                           *)
(***************************************************************************)
Main ==
    /\ cli_pc = "options"
    /\ LET resolved == IF line_length = None
                       THEN IF mode # DEFAULT_LINE_LENGTH
                            THEN Some(mode)
                            ELSE Some(DEFAULT_LINE_LENGTH)
                       ELSE line_length
       IN /\ line_length' = resolved
          /\ formatted_at' = formatted_at \cup {resolved[1]}
    /\ cli_pc' = "done"
    /\ UNCHANGED <<argv, default_map, params, mode, varsPre, varsDoc, varsTable, varsAdorn, varsCtx, varsRun, varsCache, varsWrap, varsDs, varsNest, varsPy>>

NextCli == ParsePyprojectConfig \/ ResolveLength \/ Main

SpecCli == InitCli /\ [][NextCli]_vars

(***************************************************************************)
(* Strings.  A string is a sequence of one-character strings, so "ab cd"   *)
(* is <<"a", "b", " ", "c", "d">>; the operators below are str's methods.  *)
(***************************************************************************)
\* " " * n
Spaces(n) == [i \in 1..n |-> " "]

\* sep.join(strs)
RECURSIVE Join(_, _)
Join(sep, strs) ==
    IF strs = <<>> THEN <<>>
    ELSE IF Len(strs) = 1 THEN strs[1]
    ELSE strs[1] \o sep \o Join(sep, Tail(strs))

\* s.startswith(prefix)
StartsWith(s, prefix) ==
    Len(s) >= Len(prefix) /\ SubSeq(s, 1, Len(prefix)) = prefix

\* string.whitespace, as far as the modelled texts hold it
space_chars == {" ", "\n"}
pre_markup_break_chars == space_chars \cup {"-", ":", "/", "'", "\"", "<", "(", "[", "{"}
post_markup_break_chars ==
    space_chars \cup {"-", ".", ",", ":", ";", "!", "?", "\\", "/", "'", "\"", ")", "]", "}", ">"}

\* The no-break space U+00A0, written as a token: it is whitespace to
\* str.split() and to the parser, and is not in string.whitespace.
no_break_space == "NBSP"

unicode_whitespace == space_chars \cup {no_break_space}

\* s.split(): the words between runs of whitespace
RECURSIVE SplitFrom(_, _)
SplitFrom(s, word) ==
    IF s = <<>> THEN (IF word = <<>> THEN <<>> ELSE <<word>>)
    ELSE IF Head(s) \in unicode_whitespace
         THEN (IF word = <<>> THEN <<>> ELSE <<word>>) \o SplitFrom(Tail(s), <<>>)
         ELSE SplitFrom(Tail(s), Append(word, Head(s)))

split(s) == SplitFrom(s, <<>>)

\* s.split(" "): the pieces between single spaces, empty pieces included
RECURSIVE SplitAtFrom(_, _, _)
SplitAtFrom(s, sep, piece) ==
    IF s = <<>> THEN <<piece>>
    ELSE IF Head(s) = sep
         THEN <<piece>> \o SplitAtFrom(Tail(s), sep, <<>>)
         ELSE SplitAtFrom(Tail(s), sep, Append(piece, Head(s)))

split_at(s, sep) == SplitAtFrom(s, sep, <<>>)

\* s.splitlines()
RECURSIVE SplitLinesFrom(_, _)
SplitLinesFrom(s, line) ==
    IF s = <<>> THEN (IF line = <<>> THEN <<>> ELSE <<line>>)
    ELSE IF Head(s) = "\n"
         THEN <<line>> \o SplitLinesFrom(Tail(s), <<>>)
         ELSE SplitLinesFrom(Tail(s), Append(line, Head(s)))

splitlines(s) == SplitLinesFrom(s, <<>>)

\* s.replace("\\ ", ""): every backslash followed by a space goes
RECURSIVE RemoveEscapedSpaces(_)
RemoveEscapedSpaces(s) ==
    IF s = <<>> THEN <<>>
    ELSE IF Len(s) >= 2 /\ s[1] = "\\" /\ s[2] = " "
         THEN RemoveEscapedSpaces(SubSeq(s, 3, Len(s)))
         ELSE <<Head(s)>> \o RemoveEscapedSpaces(Tail(s))

(***************************************************************************)
(* Exceptions.  A formatter is a generator of lines; an exception raised   *)
(* while it runs is modelled as a line that starts with "ERR", followed by *)
(* the kind of the error and the text the message names.  Whoever consumes *)
(* the lines of a formatter passes such a line on instead of its own       *)
(* lines, as the exception passes through the consumer.                    *)
(***************************************************************************)
Raise(kind, what) == <<"ERR", kind>> \o what

IsErr(line) == line # <<>> /\ Head(line) = "ERR"

HasErr(lines) == \E i \in 1..Len(lines) : IsErr(lines[i])

FirstErr(lines) == lines[CHOOSE i \in 1..Len(lines) :
                            IsErr(lines[i]) /\ \A j \in 1..(i - 1) : ~IsErr(lines[j])]

\* the lines of a consumer whose input lines are `lines`
Try(lines, result) == IF HasErr(lines) THEN <<FirstErr(lines)>> ELSE result

\* the adornments of the section depths, as --section-adornments gives them
\* by default: <<character, overline>> for depth 1, 2, ...  (the first ten
\* of the thirteen depths of const.SECTION_CHARS)
section_adornments ==
    << <<"#", TRUE>>, <<"*", TRUE>>, <<"=", FALSE>>, <<"-", FALSE>>, <<"^", FALSE>>,
       <<"\"", FALSE>>, <<"'", FALSE>>, <<"~", FALSE>>, <<"+", FALSE>>, <<".", FALSE>> >>

(***************************************************************************)
(* FormatContext: the fields the modelled formatters read.  `manager` is   *)
(* the Manager, of which title reads section_adornments.                   *)
(***************************************************************************)
FormatContext(w) ==
    [width |-> w, bullet |-> <<>>, current_ordinal |-> 0, first_line_len |-> 0,
     ordinal_format |-> "arabic", section_depth |-> 0, subsequent_indent |-> 0,
     is_docstring |-> FALSE,
     manager |-> [section_adornments |-> Some(section_adornments)]]

Max(a, b) == IF a >= b THEN a ELSE b

indent(context, spaces) == [context EXCEPT !.width = Max(1, context.width - spaces)]
sub_indent(context, n) == [context EXCEPT !.subsequent_indent = n]
with_bullet(context, bullet) == [context EXCEPT !.bullet = bullet]
wrap_first_at(context, w) == [context EXCEPT !.first_line_len = w]
in_section(context) == [context EXCEPT !.section_depth = context.section_depth + 1]

\* _with_spaces
with_spaces(space_count, lines) ==
    [i \in 1..Len(lines) |->
        IF lines[i] = <<>> \/ IsErr(lines[i]) THEN lines[i]
        ELSE Spaces(space_count) \o lines[i]]

\* _chain_with_line_separator("", items)
RECURSIVE chain_with_line_separator(_)
chain_with_line_separator(items) ==
    IF items = <<>> THEN <<>>
    ELSE IF Len(items) = 1 THEN items[1]
    ELSE items[1] \o << <<>> >> \o chain_with_line_separator(Tail(items))

(***************************************************************************)
(* _wrap_text.  The items are strings or inline_markup objects; an         *)
(* inline_markup is modelled as its text behind the mark "MARKUP".         *)
(***************************************************************************)
inline_markup(text) == <<"MARKUP">> \o text

IsMarkup(item) == item # <<>> /\ Head(item) = "MARKUP"

word_info(text, in_markup, start_space, end_space, start_punct, end_punct) ==
    [text |-> text, in_markup |-> in_markup, start_space |-> start_space,
     end_space |-> end_space, start_punct |-> start_punct, end_punct |-> end_punct]

\* the words of a string, none of them flagged; a string of whitespace
\* only gives one empty word with every flag set
PlainWords(ws) ==
    IF ws = <<>>
    THEN <<word_info(<<>>, FALSE, TRUE, TRUE, TRUE, TRUE)>>
    ELSE [i \in 1..Len(ws) |-> word_info(ws[i], FALSE, FALSE, FALSE, FALSE, FALSE)]

MarkupWords(ws) ==
    [i \in 1..Len(ws) |-> word_info(ws[i], TRUE, FALSE, FALSE, FALSE, FALSE)]

\* the flags the first and the last character of the item set on its
\* first and last word
StartSpace(words, first) ==
    IF first \in space_chars THEN [words EXCEPT ![1].start_space = TRUE] ELSE words

EndSpace(words, last) ==
    IF last \in space_chars THEN [words EXCEPT ![Len(words)].end_space = TRUE] ELSE words

StartPunct(words, first) ==
    IF first \in post_markup_break_chars
    THEN [words EXCEPT ![1].start_punct = TRUE] ELSE words

EndPunct(words, last) ==
    IF last \in pre_markup_break_chars
    THEN [words EXCEPT ![Len(words)].end_punct = TRUE] ELSE words

\* new_words: the words of one item
NewWords(item) ==
    IF IsMarkup(item) THEN MarkupWords(split(Tail(item)))
    ELSE IF item = <<>> THEN <<word_info(<<>>, FALSE, FALSE, FALSE, FALSE, TRUE)>>
    ELSE EndPunct(StartPunct(EndSpace(StartSpace(PlainWords(split(item)), item[1]),
                                      item[Len(item)]),
                             item[1]),
                  item[Len(item)])

\* the join between a word and the markup it is glued to
Glue(punct) == IF punct THEN <<>> ELSE <<"\\", " ">>

\* one pass of the loop that glues inline markup to the words it touches
MergeWord(words, last, word) ==
    IF ~last.in_markup /\ word.in_markup /\ ~last.end_space
    THEN Append(SubSeq(words, 1, Len(words) - 1),
                word_info(last.text \o Glue(last.end_punct) \o word.text,
                          TRUE, FALSE, FALSE, FALSE, FALSE))
    ELSE IF last.in_markup /\ ~word.in_markup /\ ~word.start_space
    THEN Append(SubSeq(words, 1, Len(words) - 1),
                word_info(last.text \o Glue(word.start_punct) \o word.text,
                          FALSE, FALSE, word.end_space, word.start_punct,
                          word.end_punct))
    ELSE Append(words, word)

RECURSIVE MergeWords(_, _)
MergeWords(raw_words, words) ==
    IF raw_words = <<>> THEN words
    ELSE MergeWords(Tail(raw_words), MergeWord(words, words[Len(words)], Head(raw_words)))

Texts(words) == [i \in 1..Len(words) |-> words[i].text]

\* word_strings: the texts of the merged words, empty ones left out
WordStrings(items) ==
    SelectSeq(Texts(MergeWords(Flatten([i \in 1..Len(items) |-> NewWords(items[i])]),
                               <<word_info(<<>>, FALSE, TRUE, TRUE, TRUE, TRUE)>>)),
              LAMBDA t : t # <<>>)

\* a line is full one character early
OverflowsEarly(next_line_len, w) == next_line_len >= w

\* whether a word that would bring the line to next_line_len starts a new line
Overflows(next_line_len, w) == next_line_len > w

\* next_line_len: the length of the line with the word on it
NextLineLen(words, word, current_line_length, subsequent_indent) ==
    current_line_length
    + (IF words # <<>> THEN subsequent_indent ELSE 0)
    + (IF words # <<>> THEN 1 ELSE 0)
    + Len(word)

\* the greedy loop: words is the line being filled
RECURSIVE FillLines(_, _, _, _, _, _)
FillLines(word_strings, words, current_line_length, w, first_line_len, subsequent_indent) ==
    IF word_strings = <<>>
    THEN (IF words # <<>> THEN <<Join(<<" ">>, words)>> ELSE <<>>)
    ELSE IF words # <<>>
            /\ Overflows(NextLineLen(words, Head(word_strings), current_line_length,
                                     subsequent_indent), w)
    THEN <<Spaces(subsequent_indent) \o Join(<<" ">>, words)>>
         \o FillLines(Tail(word_strings), <<Head(word_strings)>>,
                      Len(Head(word_strings)),
                      IF first_line_len # 0 THEN w + first_line_len ELSE w,
                      0, subsequent_indent)
    ELSE FillLines(Tail(word_strings), Append(words, Head(word_strings)),
                   NextLineLen(words, Head(word_strings), current_line_length,
                               subsequent_indent),
                   w, first_line_len, subsequent_indent)

\* _wrap_text(width, items, context, line) with an integer width
wrap_text(w, items, context) ==
    IF HasErr(items) THEN <<FirstErr(items)>>
    ELSE IF w <= 0 THEN <<Raise("ValueError: Invalid starting width", <<>>)>>
    ELSE FillLines(WordStrings(items), <<>>, 0,
                   IF context.first_line_len # 0
                   THEN w - context.first_line_len ELSE w,
                   context.first_line_len, context.subsequent_indent)

\* _wrap_text(None, items, context, line): one line, however long
wrap_text_unbounded(items) ==
    IF HasErr(items) THEN <<FirstErr(items)>>
    ELSE <<Join(<<" ">>, WordStrings(items))>>


(***************************************************************************)
(* The document tree as the formatters see it.  Every node is a record of  *)
(* the same shape:                                                         *)
(*   kind : the docutils node class                                        *)
(*   text : the text of a Text node                                        *)
(*   attr : the one attribute the formatters read: "name" of a field_name  *)
(*          (None, or Some(name)), the name of an auto-numbered footnote   *)
(*   kids : node.children                                                  *)
(***************************************************************************)
Element(kind, attr, kids) == [kind |-> kind, text |-> <<>>, attr |-> attr, kids |-> kids]

nodes_Text(text) == [kind |-> "Text", text |-> text, attr |-> <<>>, kids |-> <<>>]
nodes_paragraph(text) == Element("paragraph", <<>>, <<nodes_Text(text)>>)
nodes_document(kids) == Element("document", <<>>, kids)
nodes_section(title, kids) ==
    Element("section", <<>>, <<Element("title", <<>>, <<nodes_Text(title)>>)>> \o kids)
nodes_list_item(kids) == Element("list_item", <<>>, kids)
nodes_bullet_list(kids) == Element("bullet_list", <<>>, kids)
nodes_label(text) == Element("label", <<>>, <<nodes_Text(text)>>)
nodes_footnote(label, kids) == Element("footnote", <<>>, <<nodes_label(label)>> \o kids)
nodes_note(kids) == Element("note", <<>>, kids)
nodes_field_name(text) == Element("field_name", <<>>, <<nodes_Text(text)>>)
nodes_field_body(kids) == Element("field_body", <<>>, kids)
nodes_field(name, kids) ==
    Element("field", <<>>, <<nodes_field_name(name), nodes_field_body(kids)>>)
nodes_field_list(kids) == Element("field_list", <<>>, kids)

\* node.astext(): the texts of the children, joined by a blank line
RECURSIVE astext(_)
astext(node) ==
    IF node.kind = "Text" THEN node.text
    ELSE Join(<<"\n", "\n">>, [i \in 1..Len(node.kids) |-> astext(node.kids[i])])

\* s.strip()
RECURSIVE lstrip(_)
lstrip(s) == IF s # <<>> /\ Head(s) \in space_chars THEN lstrip(Tail(s)) ELSE s

RECURSIVE rstrip(_)
rstrip(s) ==
    IF s # <<>> /\ s[Len(s)] \in space_chars THEN rstrip(SubSeq(s, 1, Len(s) - 1)) ELSE s

strip(s) == lstrip(rstrip(s))

(***************************************************************************)
(* The formatters.  Each takes a node and a context and gives the lines it *)
(* yields; Manager.perform_format picks the formatter of a node's class.   *)
(***************************************************************************)
RECURSIVE perform_format(_, _)

\* Formatters._format_children: the first child gets the context, the others
\* a context that wraps the first line like any other line
format_children(node, context) ==
    [i \in 1..Len(node.kids) |->
        perform_format(node.kids[i],
                       IF i = 1 THEN context ELSE wrap_first_at(context, 0))]

\* the lines of a generator that yields the lines it is given
Yield(lines) == IF HasErr(lines) THEN <<FirstErr(lines)>> ELSE lines

text(node, context) == <<RemoveEscapedSpaces(node.text)>>

paragraph(node, context) ==
    wrap_text(context.width,
              Flatten(format_children(node, sub_indent(context, context.subsequent_indent))),
              sub_indent(context, context.subsequent_indent))

document(node, context) ==
    Yield(chain_with_line_separator(format_children(node, context)))

section(node, context) ==
    Yield(chain_with_line_separator(format_children(node, in_section(context))))

\* char * n
Repeat(char, n) == [i \in 1..n |-> char]

\* a title whose overline and underline are as long as its text
AdornedFlush(title_text, char, overline) ==
    IF overline
    THEN << Repeat(char, Len(title_text)), <<" ">> \o title_text,
            Repeat(char, Len(title_text)) >>
    ELSE << title_text, Repeat(char, Len(title_text)) >>

\* the lines of a title: centred between two lines when overlined
Adorned(title_text, char, overline) ==
    IF overline
    THEN << Repeat(char, 2 + Len(title_text)), <<" ">> \o title_text,
            Repeat(char, 2 + Len(title_text)) >>
    ELSE << title_text, Repeat(char, Len(title_text)) >>

\* a title that keeps the adornment of the source whatever the Manager holds
title_from_source(node, context) ==
    Adorned(Join(<<" ">>, wrap_text_unbounded(Flatten(format_children(node, context)))),
            node.attr.character, node.attr.overline)

\* Formatters.title.  The attributes "adornment-character" and
\* "adornment-overline" of node.parent and node.line are kept in node.attr;
\* the reporter's message comes with the exception: line, depth and the
\* number of adornments
title(node, context) ==
    IF context.manager.section_adornments = None
    THEN Adorned(Join(<<" ">>, wrap_text_unbounded(Flatten(format_children(node, context)))),
                 node.attr.character, node.attr.overline)
    ELSE IF context.section_depth > Len(context.manager.section_adornments[1])
    THEN <<Raise("IndexError",
                 <<node.attr.line, context.section_depth,
                   Len(context.manager.section_adornments[1])>>)>>
    ELSE Adorned(Join(<<" ">>, wrap_text_unbounded(Flatten(format_children(node, context)))),
                 context.manager.section_adornments[1][context.section_depth][1],
                 context.manager.section_adornments[1][context.section_depth][2])

\* the lines of a list item: the bullet before the first, spaces before the
\* others, nothing before a blank one
Bulleted(lines, bullet) ==
    IF HasErr(lines) THEN <<FirstErr(lines)>>
    ELSE [i \in 1..Len(lines) |->
            (IF lines[i] # <<>>
             THEN (IF i = 1 THEN bullet \o <<" ">> ELSE Spaces(Len(bullet) + 1))
             ELSE <<>>) \o lines[i]]

list_item(node, context) ==
    IF node.kids = <<>> THEN << <<"-">> >>
    ELSE Bulleted(chain_with_line_separator(
                      format_children(node,
                          [indent(context, Len(context.bullet) + 1) EXCEPT !.bullet = <<>>])),
                  context.bullet)

\* Formatters._list: an item of several children is followed by a blank line
\* unless it is the last item
list(node, context) ==
    Yield(Flatten([i \in 1..Len(node.kids) |->
                      perform_format(node.kids[i], context)
                      \o (IF Len(node.kids[i].kids) > 1 /\ Len(node.kids) # i
                          THEN << <<>> >> ELSE <<>>)]))

bullet_list(node, context) == list(node, with_bullet(context, <<"-">>))

Bracketed(lines) ==
    IF HasErr(lines) THEN <<FirstErr(lines)>>
    ELSE << <<"[">> \o Join(<<" ">>, lines) \o <<"]">> >>

label(node, context) == Bracketed(Flatten(format_children(node, context)))

\* what the first line of a footnote is shortened by: len(prefix) - 4
FootnoteFirstLineLen(prefix) == Len(prefix) - 4

\* the lines of a footnote: the first wrapped line behind the prefix (and the
\* name of an auto-numbered footnote), the others indented by four
Prefixed(prefix, footnote_name, children) ==
    IF HasErr(children) THEN <<FirstErr(children)>>
    ELSE IF children = <<>> THEN <<Raise("StopIteration", <<>>)>>
    ELSE <<Join(<<" ">>, <<prefix>> \o footnote_name \o <<children[1]>>)>>
         \o with_spaces(4, Tail(children))

footnote(node, context) ==
    Prefixed(<<".", ".">>,
             IF node.attr # <<>> THEN << <<"[", "#">> \o node.attr \o <<"]">> >> ELSE <<>>,
             wrap_text(context.width - 4,
                       Flatten(format_children(node, indent(context, 4))),
                       indent(wrap_first_at(context, FootnoteFirstLineLen(<<".", ".">>)), 4)))

\* the lines of a directive: its head, a blank line, its content indented
Directive(head, lines) ==
    IF HasErr(lines) THEN <<FirstErr(lines)>>
    ELSE <<head, <<>> >> \o with_spaces(4, lines)

\* Formatters._sub_admonition, the formatter of note and its like
sub_admonition(node, context) ==
    Directive(<<".", ".", " ">> \o <<"n", "o", "t", "e">> \o <<":", ":">>,
              chain_with_line_separator(format_children(node, indent(context, 4))))


\* the name between colons; a name that starts with param, raise or return
\* is put together from its first word and what follows it
Coloned(name_text, field_kind) ==
    <<":">> \o field_kind \o SubSeq(name_text, Len(field_kind) + 1, Len(name_text)) \o <<":">>

FieldNameLine(name_text) ==
    << Coloned(name_text,
               IF \E kind \in {<<"p", "a", "r", "a", "m">>, <<"r", "a", "i", "s", "e">>, <<"r", "e", "t", "u", "r", "n">>} : StartsWith(name_text, kind)
               THEN split_at(name_text, " ")[1] ELSE <<>>) >>

NameLines(lines) ==
    IF HasErr(lines) THEN <<FirstErr(lines)>> ELSE FieldNameLine(Join(<<" ">>, lines))

\* Formatters.field_name
field_name(node, context) == NameLines(Flatten(format_children(node, context)))

\* what the first line of a field body is shortened by: the body is indented
\* by four, and ":name: " takes the rest
FieldFirstLineLen(name_text) == Len(<<":">> \o name_text \o <<":", " ">>) - 4

\* Formatters.field_body
field_body(node, context, parent) ==
    Yield(chain_with_line_separator(
              format_children(node,
                  wrap_first_at(indent(context, 4),
                                FieldFirstLineLen(astext(parent.kids[1]))))))

\* the number of lines after children[i] that belong to its block
RECURSIVE BlockExtent(_, _)
BlockExtent(children, i) ==
    IF i + 1 <= Len(children)
       /\ (StartsWith(children[i + 1], <<" ", " ", " ", " ">>) \/ children[i + 1] = <<>>)
    THEN 1 + BlockExtent(children, i + 1)
    ELSE 0

\* blocks_in_child, closed by a blank line
Closed(blocks_in_child) ==
    IF blocks_in_child[Len(blocks_in_child)] # <<>>
    THEN Append(blocks_in_child, <<>>) ELSE blocks_in_child

\* the loop of Formatters.field over the lines after the first: a line that
\* starts with ".." takes the n indented and blank lines after it along as
\* its block; the block goes from `children`, but for its last line
RECURSIVE ProcessBlocks(_, _, _)
TakeBlock(children, i, n, children_processed) ==
    ProcessBlocks(SubSeq(children, 1, i - 1) \o SubSeq(children, i + n, Len(children)),
                  i + 1,
                  children_processed \o Closed(SubSeq(children, i, i + n)))

ProcessBlocks(children, i, children_processed) ==
    IF i > Len(children) THEN children_processed
    ELSE IF StartsWith(children[i], <<".", ".">>)
    THEN TakeBlock(children, i, BlockExtent(children, i), children_processed)
    ELSE ProcessBlocks(children, i + 1, Append(children_processed, children[i]))

\* the names field_name.startswith() takes for Sphinx metadata fields
metadata_prefixes == {<<":", "n", "o", "c", "o", "m", "m", "e", "n", "t", "s">>, <<":", "n", "o", "s", "e", "a", "r", "c", "h">>, <<":", "o", "r", "p", "h", "a", "n">>}

IsMetadataName(name_line) == \E prefix \in metadata_prefixes : StartsWith(name_line, prefix)

\* the lines of a field; children are the lines of its name and of its body
FieldLines(node, children, is_empty_sphinx_metadata_field) ==
    IF IsErr(children[1]) THEN <<children[1]>>
    ELSE IF Len(children) = 1
    THEN (IF is_empty_sphinx_metadata_field
          THEN children
          ELSE <<Raise("Empty field", strip(astext(node)))>>)
    ELSE IF IsErr(children[2]) THEN <<children[2]>>
    ELSE IF children[2] # <<>> /\ is_empty_sphinx_metadata_field
    THEN <<Raise("Non-empty Sphinx metadata field", children[1])>>
    ELSE IF HasErr(children) THEN <<FirstErr(children)>>
    ELSE <<children[1] \o <<" ">> \o children[2]>>
         \o with_spaces(4, ProcessBlocks(SubSeq(children, 3, Len(children)), 1, <<>>))

FieldChildren(node, children) == FieldLines(node, children, IsMetadataName(children[1]))

\* Formatters.field
field(node, context) ==
    FieldChildren(node,
                  perform_format(node.kids[1], context)
                  \o field_body(node.kids[2], wrap_first_at(context, 0), node))


(***************************************************************************)
(* Formatters.field_list.  The loop over the fields sorts them into the    *)
(* five lists and takes the type fields out of the tree; the fields are    *)
(* kept by their position in node.children.  A dict is the sequence of its *)
(* <<key, value>> assignments, a later one overriding an earlier one.      *)
(***************************************************************************)
field_name_mapping ==
    { <<<<"a", "r", "g">>, <<"p", "a", "r", "a", "m">>>>, <<<<"a", "r", "g", "u", "m", "e", "n", "t">>, <<"p", "a", "r", "a", "m">>>>, <<<<"k", "e", "y">>, <<"p", "a", "r", "a", "m">>>>,
      <<<<"k", "e", "y", "w", "o", "r", "d">>, <<"p", "a", "r", "a", "m">>>>, <<<<"p", "a", "r", "a", "m">>, <<"p", "a", "r", "a", "m">>>>, <<<<"p", "a", "r", "a", "m", "e", "t", "e", "r">>, <<"p", "a", "r", "a", "m">>>>,
      <<<<"r", "e", "t", "u", "r", "n">>, <<"r", "e", "t", "u", "r", "n", "s">>>>, <<<<"r", "e", "t", "u", "r", "n", "s">>, <<"r", "e", "t", "u", "r", "n", "s">>>>,
      <<<<"e", "x", "c", "e", "p", "t">>, <<"r", "a", "i", "s", "e", "s">>>>, <<<<"e", "x", "c", "e", "p", "t", "i", "o", "n">>, <<"r", "a", "i", "s", "e", "s">>>>,
      <<<<"r", "a", "i", "s", "e">>, <<"r", "a", "i", "s", "e", "s">>>>, <<<<"r", "a", "i", "s", "e", "s">>, <<"r", "a", "i", "s", "e", "s">>>>,
      <<<<"c", "v", "a", "r">>, <<"v", "a", "r">>>>, <<<<"i", "v", "a", "r">>, <<"v", "a", "r">>>>, <<<<"v", "a", "r">>, <<"v", "a", "r">>>> }

\* field_name_mapping.get(field_kind, field_kind)
MappedKind(field_kind) ==
    IF \E m \in field_name_mapping : m[1] = field_kind
    THEN (CHOOSE m \in field_name_mapping : m[1] = field_kind)[2]
    ELSE field_kind

\* key in d
HasKey(d, key) == \E i \in 1..Len(d) : d[i][1] = key

\* d[key]
Lookup(d, key) ==
    d[CHOOSE i \in 1..Len(d) :
          d[i][1] = key /\ \A j \in (i + 1)..Len(d) : d[j][1] # key][2]

\* the lists and dicts at the start of field_list; `fields` is node.children
\* and `removed` the positions node.remove() took out
FieldLists(node) ==
    [fields |-> node.kids, removed |-> {},
     param_fields |-> <<>>, var_fields |-> <<>>, returns_fields |-> <<>>,
     rtype_fields |-> <<>>, raises_fields |-> <<>>, other_fields |-> <<>>,
     param_types |-> <<>>, var_types |-> <<>>, already_typed |-> <<>>,
     error |-> <<>>]

\* field_kind, *field_typing, field_name = parts: the unpacking fails on a
\* single part, and the name is None then
FieldTyping(parts) == IF Len(parts) >= 2 THEN SubSeq(parts, 2, Len(parts) - 1) ELSE <<>>
FieldName(parts) == IF Len(parts) >= 2 THEN Some(parts[Len(parts)]) ELSE None

\* the field_name in the tree after the pass: replace_self puts a new node
\* in when the kind was a synonym, and the setdefault that follows sets
\* "name" on the node that was replaced
NamedNode(field_name_node, parts, field_kind) ==
    IF parts[1] # field_kind
    THEN nodes_field_name(
            Join(<<" ">>, <<field_kind>> \o FieldTyping(parts)
                          \o (IF FieldName(parts) # None /\ FieldName(parts)[1] # <<>>
                              THEN FieldName(parts) ELSE <<>>)))
    ELSE [field_name_node EXCEPT !.attr = IF @ # None THEN @ ELSE FieldName(parts)]

\* a :type: or :vartype: field: its type goes into the dict, the field goes
TakeType(st, i, field_kind, name, field_type) ==
    IF \E k \in 1..Len(field_type) : field_type[k] = "\n"
    THEN [st EXCEPT !.error = Raise("Multi-line type hints are not supported.", <<>>)]
    ELSE IF field_kind = <<"t", "y", "p", "e">>
    THEN [st EXCEPT !.param_types = Append(@, <<name, field_type>>),
                    !.removed = @ \cup {i}]
    ELSE [st EXCEPT !.var_types = Append(@, <<name, field_type>>),
                    !.removed = @ \cup {i}]

\* field_types_mapping[field_kind].append(child), or other_fields
PutInList(st, i, field_kind) ==
    IF field_kind = <<"p", "a", "r", "a", "m">> THEN [st EXCEPT !.param_fields = Append(@, i)]
    ELSE IF field_kind = <<"v", "a", "r">> THEN [st EXCEPT !.var_fields = Append(@, i)]
    ELSE IF field_kind = <<"r", "e", "t", "u", "r", "n", "s">>
    THEN (IF st.returns_fields # <<>>
          THEN [st EXCEPT !.error =
                   Raise("Multiple :return: fields are not allowed.", <<>>)]
          ELSE [st EXCEPT !.returns_fields = Append(@, i)])
    ELSE IF field_kind = <<"r", "t", "y", "p", "e">> THEN [st EXCEPT !.rtype_fields = Append(@, i)]
    ELSE IF field_kind = <<"r", "a", "i", "s", "e", "s">> THEN [st EXCEPT !.raises_fields = Append(@, i)]
    ELSE [st EXCEPT !.other_fields = Append(@, i)]

\* whether an inline type makes the name count as already typed
CountsAsTyped(field_kind, field_typing) == field_typing # <<>>

\* the pass of the first loop for the field at position i, its name known
SortNamed(st, i, field_kind, field_typing, name) ==
    IF field_kind \in {<<"t", "y", "p", "e">>, <<"v", "a", "r", "t", "y", "p", "e">>}
    THEN (IF st.fields[i].kids[2].kids = <<>>
          THEN [st EXCEPT !.error = Raise("IndexError", <<>>)]
          ELSE TakeType(st, i, field_kind, name, astext(st.fields[i].kids[2].kids[1])))
    ELSE PutInList(IF CountsAsTyped(field_kind, field_typing)
                   THEN [st EXCEPT !.already_typed = Append(@, name)]
                   ELSE st,
                   i, field_kind)

SortParts(st, i, parts, field_kind) ==
    SortNamed([st EXCEPT !.fields[i].kids[1] = NamedNode(@, parts, field_kind)],
              i, field_kind, FieldTyping(parts), FieldName(parts))

SplitName(st, i, parts) == SortParts(st, i, parts, MappedKind(parts[1]))

SortField(st, i) == SplitName(st, i, split_at(astext(st.fields[i].kids[1].kids[1]), " "))

RECURSIVE SortFields(_, _)
SortFields(st, i) ==
    IF i > Len(st.fields) \/ st.error # <<>> THEN st
    ELSE SortFields(SortField(st, i), i + 1)

\* str(field_name) inside an f-string
Str(name) == IF name = None THEN <<"N", "o", "n", "e">> ELSE name[1]

\* the pass of the second loop for the field at position i
MergeType(st, i, name, types, type_field_name, field_type) ==
    IF (\E k \in 1..Len(st.already_typed) : st.already_typed[k] = name)
       /\ HasKey(types, name)
    THEN [st EXCEPT !.error =
             Raise("Type hint is specified both in the field body and in the field",
                   type_field_name)]
    ELSE IF HasKey(types, name) /\ Lookup(types, name) # <<>>
    THEN [st EXCEPT !.fields[i].kids[1] =
             nodes_field_name(field_type \o <<" ">> \o Lookup(types, name)
                              \o <<" ">> \o Str(name))]
    ELSE st

\* the second loop, over param_fields (resp. var_fields): the type of the
\* :type: (resp. :vartype:) field goes into the name of the field
RECURSIVE MergeTypes(_, _, _, _, _)
MergeTypes(st, fields, types, type_field_name, field_type) ==
    IF fields = <<>> \/ st.error # <<>> THEN st
    ELSE MergeTypes(MergeType(st, Head(fields), st.fields[Head(fields)].kids[1].attr,
                              types, type_field_name, field_type),
                    Tail(fields), types, type_field_name, field_type)

MergeParamTypes(st) == MergeTypes(st, st.param_fields, st.param_types, <<"t", "y", "p", "e">>, <<"p", "a", "r", "a", "m">>)
MergeVarTypes(st) == MergeTypes(st, st.var_fields, st.var_types, <<"v", "a", "r", "t", "y", "p", "e">>, <<"v", "a", "r">>)

\* the lists of field_list when its two loops are done
SortedFieldLists(node) == MergeVarTypes(MergeParamTypes(SortFields(FieldLists(node), 1)))

\* the blank line after the fields of `previous_fields` when fields follow
Separator(previous_fields, following_fields) ==
    IF previous_fields # <<>> /\ following_fields # <<>> THEN << <<>> >> ELSE <<>>

\* the lines of the fields at the positions `fields`
RenderFields(st, fields, context) ==
    Flatten([k \in 1..Len(fields) |-> perform_format(st.fields[fields[k]], context)])

\* the five groups in their order, a blank line between two of them
RenderLists(st, context) ==
    IF st.error # <<>> THEN <<st.error>>
    ELSE Yield(
            RenderFields(st, st.param_fields, context)
            \o Separator(st.param_fields,
                         st.returns_fields \o st.rtype_fields \o st.raises_fields
                         \o st.var_fields \o st.other_fields)
            \o RenderFields(st, st.returns_fields \o st.rtype_fields, context)
            \o Separator(st.returns_fields \o st.rtype_fields,
                         st.raises_fields \o st.var_fields \o st.other_fields)
            \o RenderFields(st, st.raises_fields, context)
            \o Separator(st.raises_fields, st.var_fields \o st.other_fields)
            \o RenderFields(st, st.var_fields, context)
            \o Separator(st.var_fields, st.other_fields)
            \o RenderFields(st, st.other_fields, context))

field_list(node, context) == RenderLists(SortedFieldLists(node), context)

\* the children of a field list after field_list ran over it
Kept(st) ==
    SelectSeq([i \in 1..Len(st.fields) |-> IF i \in st.removed THEN <<>> ELSE st.fields[i]],
              LAMBDA f : f # <<>>)

FieldListChildren(node) == Kept(SortedFieldLists(node))

\* Manager.perform_format: the formatter named after the node's class
perform_format(node, context) ==
    CASE node.kind = "Text" -> text(node, context)
      [] node.kind = "paragraph" -> paragraph(node, context)
      [] node.kind = "document" -> document(node, context)
      [] node.kind = "section" -> section(node, context)
      [] node.kind = "title" -> title(node, context)
      [] node.kind = "bullet_list" -> bullet_list(node, context)
      [] node.kind = "list_item" -> list_item(node, context)
      [] node.kind = "label" -> label(node, context)
      [] node.kind = "footnote" -> footnote(node, context)
      [] node.kind = "note" -> sub_admonition(node, context)
      [] node.kind = "field_list" -> field_list(node, context)
      [] node.kind = "field" -> field(node, context)
      [] node.kind = "field_name" -> field_name(node, context)
      [] OTHER -> <<Raise("ValueError: Unknown node type", <<>>)>>

\* the tree after the formatters ran over it: field_list changes its node
RECURSIVE Formatted(_)
FormattedKids(node, kids) == [node EXCEPT !.kids = [i \in 1..Len(kids) |-> Formatted(kids[i])]]

Formatted(node) ==
    FormattedKids(node, IF node.kind = "field_list" THEN FieldListChildren(node) ELSE node.kids)

\* "\n".join(lines) and a newline; an exception passes through
Joined(lines) ==
    IF HasErr(lines) THEN FirstErr(lines) ELSE Join(<<"\n">>, lines) \o <<"\n">>

\* Manager.format_node
format_node(w, node) == Joined(perform_format(node, FormatContext(w)))


(***************************************************************************)
(* Formatting a document: Manager.format_node on a parsed tree, and        *)
(* Manager.parse_string on the string it returned.                         *)
(***************************************************************************)
\* a document is formatted, its output parsed and formatted once more
MaxPasses == 2

\* what a call of format_node leaves behind: the string, or the exception
Returned(formatted) ==
    /\ passes' = Append(passes, [tree |-> doc, returned |-> formatted])
    /\ IF IsErr(formatted)
       THEN /\ doc_pc' = "raised"
            /\ raised' = formatted
            /\ UNCHANGED output
       ELSE /\ doc_pc' = "formatted"
            /\ output' = formatted
            /\ UNCHANGED raised

FormatNode ==
    /\ doc_pc = "parsed"
    /\ Len(passes) < MaxPasses
    /\ Returned(format_node(width, doc))
    /\ doc' = Formatted(doc)
    /\ UNCHANGED <<width, varsPre, varsCli, varsTable, varsAdorn, varsCtx, varsRun, varsCache, varsWrap, varsDs, varsNest, varsPy>>

(***************************************************************************)
(* Field lists: the documents of this specification are one field list of  *)
(* up to MaxFields fields, formatted at the default line length.           *)
(***************************************************************************)
MaxFields == 3

Described == <<nodes_paragraph(<<"d">>)>>
DescribedWithNote == <<nodes_paragraph(<<"d">>), nodes_note(<<nodes_paragraph(<<"n">>)>>)>>

FieldPool ==
    { nodes_field(<<"p", "a", "r", "a", "m", " ", "x">>, Described),
      nodes_field(<<"p", "a", "r", "a", "m", " ", "i", "n", "t", " ", "x">>, Described),
      nodes_field(<<"p", "a", "r", "a", "m", " ", "y">>, DescribedWithNote),
      nodes_field(<<"a", "r", "g", " ", "x">>, Described),
      nodes_field(<<"t", "y", "p", "e", " ", "x">>, <<nodes_paragraph(<<"i", "n", "t">>)>>),
      nodes_field(<<"t", "y", "p", "e", " ", "x">>, <<nodes_paragraph(<<"s", "t", "r">>)>>),
      nodes_field(<<"t", "y", "p", "e", " ", "x">>, <<>>),
      nodes_field(<<"v", "a", "r", " ", "x">>, Described),
      nodes_field(<<"v", "a", "r", " ", "i", "n", "t", " ", "x">>, Described),
      nodes_field(<<"v", "a", "r", "t", "y", "p", "e", " ", "x">>, <<nodes_paragraph(<<"s", "t", "r">>)>>),
      nodes_field(<<"r", "e", "t", "u", "r", "n", "s">>, Described),
      nodes_field(<<"r", "e", "t", "u", "r", "n", "s">>, <<>>),
      nodes_field(<<"r", "t", "y", "p", "e">>, <<nodes_paragraph(<<"i", "n", "t">>)>>),
      nodes_field(<<"r", "a", "i", "s", "e", "s", " ", "E">>, Described),
      nodes_field(<<"s", "i", "n", "c", "e">>, DescribedWithNote),
      nodes_field(<<"o", "r", "p", "h", "a", "n">>, <<>>),
      nodes_field(<<"o", "r", "p", "h", "a", "n", "s">>, <<>>),
      nodes_field(<<"n", "o", "s", "e", "a", "r", "c", "h">>, Described) }

FieldListsUpTo == UNION {[1..k -> FieldPool] : k \in 1..MaxFields}

InitFields ==
    /\ IdlePre
    /\ IdleCli
    /\ IdleTable
    /\ IdleAdorn
    /\ IdleCtx
    /\ IdleRun
    /\ IdleCache
    /\ IdleWrap
    /\ IdleDs
    /\ IdleNest
    /\ IdlePy
    /\ doc_pc = "parsed"
    /\ width = DEFAULT_LINE_LENGTH
    /\ doc \in {nodes_document(<<nodes_field_list(fields)>>) : fields \in FieldListsUpTo}
    /\ output = <<>>
    /\ raised = <<>>
    /\ passes = <<>>

NextFields == FormatNode

SpecFields == InitFields /\ [][NextFields]_vars


(***************************************************************************)
(* Manager.parse_string: the reStructuredText parser it runs on the text,  *)
(* for the lines the formatters above emit - paragraphs, bullet lists,     *)
(* footnotes and underlined titles - and the preprocessing of the tree.    *)
(* The underlines of the texts parsed here are all of one style, so every  *)
(* title opens a section of the document.                                  *)
(***************************************************************************)
\* the characters a title underline is made of
adornment_chars == {"#", "*", "|", "=", "-", "^", "\"", "'", "~", "+", ".", "_", ":"}

\* a line of one repeated adornment character
IsAdornment(line) ==
    /\ line # <<>>
    /\ Head(line) \in adornment_chars
    /\ \A i \in 1..Len(line) : line[i] = Head(line)

RECURSIVE Indentation(_)
Indentation(line) ==
    IF line # <<>> /\ Head(line) = " " THEN 1 + Indentation(Tail(line)) ELSE 0

\* the position behind the lines from i on that are blank or indented by n
RECURSIVE IndentedEnd(_, _, _)
IndentedEnd(lines, i, n) ==
    IF i <= Len(lines) /\ (lines[i] = <<>> \/ Indentation(lines[i]) >= n)
    THEN IndentedEnd(lines, i + 1, n)
    ELSE i

\* the position behind the text block that starts at i
RECURSIVE TextEnd(_, _)
TextEnd(lines, i) ==
    IF i <= Len(lines) /\ lines[i] # <<>> THEN TextEnd(lines, i + 1) ELSE i

\* the smallest indentation of the lines that are not blank
RECURSIVE MinIndentation(_)
MinIndentation(lines) ==
    IF lines = <<>> THEN 0
    ELSE IF Head(lines) = <<>> THEN MinIndentation(Tail(lines))
    ELSE IF \A i \in 2..Len(lines) : lines[i] = <<>> THEN Indentation(Head(lines))
    ELSE IF Indentation(Head(lines)) < MinIndentation(Tail(lines))
         THEN Indentation(Head(lines))
         ELSE MinIndentation(Tail(lines))

Dedented(lines, n) ==
    [i \in 1..Len(lines) |-> SubSeq(lines[i], n + 1, Len(lines[i]))]

IsBullet(line) == line = <<"-">> \/ StartsWith(line, <<"-", " ">>)

\* the position of the first "]" of the line, 0 if it has none
RECURSIVE LabelEnd(_, _)
LabelEnd(line, i) ==
    IF i > Len(line) THEN 0 ELSE IF line[i] = "]" THEN i ELSE LabelEnd(line, i + 1)

IsFootnote(line) ==
    /\ StartsWith(line, <<".", ".", " ", "[">>)
    /\ LabelEnd(line, 5) > 5
    /\ (LabelEnd(line, 5) = Len(line) \/ line[LabelEnd(line, 5) + 1] = " ")

RECURSIVE parse_lines(_, _, _)

\* the title of a section, kept with its underline until the sections are built
Title(title_text, underline) ==
    Element("title", underline, <<nodes_Text(rstrip(title_text))>>)

\* a text block: a title when its second line is an underline (an underline
\* of less than four characters that is shorter than the first line is
\* ordinary text), else a paragraph; nested bodies take no titles
TextBlock(lines, i, end, match_titles) ==
    IF /\ end - i >= 2
       /\ IsAdornment(lines[i + 1])
       /\ ~(Len(rstrip(lines[i])) > Len(lines[i + 1]) /\ Len(lines[i + 1]) < 4)
    THEN (IF Len(rstrip(lines[i])) > Len(lines[i + 1])
          THEN <<SystemMessage("WARNING", "Title underline too short.", i)>>
          ELSE <<>>)
         \o (IF match_titles
             THEN <<Title(lines[i], lines[i + 1])>>
             ELSE <<SystemMessage("SEVERE", "Unexpected section title.", i)>>)
         \o parse_lines(lines, i + 2, match_titles)
    ELSE <<nodes_paragraph(Join(<<"\n">>, SubSeq(lines, i, end - 1)))>>
         \o parse_lines(lines, end, match_titles)

\* a list item: the text behind the bullet and the lines indented below it
Item(lines, i, end) ==
    nodes_list_item(
        parse_lines(<<SubSeq(lines[i], 3, Len(lines[i]))>>
                        \o Dedented(SubSeq(lines, i + 1, end - 1), 2),
                    1, FALSE))

RECURSIVE Items(_, _)
Items(lines, i) ==
    IF i <= Len(lines) /\ IsBullet(lines[i])
    THEN <<Item(lines, i, IndentedEnd(lines, i + 1, 2))>>
         \o Items(lines, IndentedEnd(lines, i + 1, 2))
    ELSE <<>>

\* the position behind the last item of the list that starts at i
RECURSIVE ItemsEnd(_, _)
ItemsEnd(lines, i) ==
    IF i <= Len(lines) /\ IsBullet(lines[i])
    THEN ItemsEnd(lines, IndentedEnd(lines, i + 1, 2))
    ELSE i

\* a footnote: its label, and the text behind the label with the lines
\* indented below it
Footnote(lines, i, end) ==
    nodes_footnote(
        SubSeq(lines[i], 5, LabelEnd(lines[i], 5) - 1),
        parse_lines(<<SubSeq(lines[i], LabelEnd(lines[i], 5) + 2, Len(lines[i]))>>
                        \o Dedented(SubSeq(lines, i + 1, end - 1),
                                    MinIndentation(SubSeq(lines, i + 1, end - 1))),
                    1, FALSE))

\* the body elements of the lines from i on
parse_lines(lines, i, match_titles) ==
    IF i > Len(lines) THEN <<>>
    ELSE IF lines[i] = <<>> THEN parse_lines(lines, i + 1, match_titles)
    ELSE IF IsBullet(lines[i])
         THEN <<nodes_bullet_list(Items(lines, i))>>
              \o parse_lines(lines, ItemsEnd(lines, i), match_titles)
    ELSE IF IsFootnote(lines[i])
         THEN <<Footnote(lines, i, IndentedEnd(lines, i + 1, 1))>>
              \o parse_lines(lines, IndentedEnd(lines, i + 1, 1), match_titles)
    ELSE TextBlock(lines, i, TextEnd(lines, i), match_titles)

\* the position of the first title from i on, Len(elements) + 1 if none
RECURSIVE NextTitle(_, _)
NextTitle(elements, i) ==
    IF i > Len(elements) \/ elements[i].kind = "title" THEN i
    ELSE NextTitle(elements, i + 1)

\* a title takes the elements up to the next title into its section
RECURSIVE Sections(_)
Sections(elements) ==
    IF elements = <<>> THEN <<>>
    ELSE IF Head(elements).kind = "title"
         THEN <<Element("section", <<>>,
                        <<[Head(elements) EXCEPT !.attr = <<>>]>>
                            \o SubSeq(elements, 2, NextTitle(elements, 2) - 1))>>
              \o Sections(SubSeq(elements, NextTitle(elements, 2), Len(elements)))
         ELSE <<Head(elements)>> \o Sections(Tail(elements))

\* parser.parse(text, doc)
parse(source_text) ==
    nodes_document(Sections(parse_lines(splitlines(source_text), 1, TRUE)))

\* what a call of parse_string leaves behind: the preprocessed tree, or the
\* errors Manager._pre_process raised
Parsed(r) ==
    /\ doc' = r.node
    /\ error_count' = error_count + r.count
    /\ IF r.raised
       THEN /\ doc_pc' = "rejected"
            /\ raised' = Raise(r.errors[1].message, <<>>)
       ELSE /\ doc_pc' = "parsed"
            /\ UNCHANGED raised

ParseString ==
    /\ doc_pc = "formatted"
    /\ Len(passes) < MaxPasses
    /\ Parsed(pre_process(parse(output)))
    /\ UNCHANGED <<width, output, passes, source_tree, tree, pre_pc, pre_errors, varsCli, varsTable, varsAdorn, varsCtx, varsRun, varsCache, varsWrap, varsDs, varsNest, varsPy>>

(***************************************************************************)
(* Documents: up to MaxBlocks body elements - paragraphs, footnotes of one *)
(* and two paragraphs, bullet lists with items of one and two paragraphs - *)
(* formatted at a width from the smallest one up to MaxWidth, parsed       *)
(* again and formatted a second time.  A parsed document never holds two   *)
(* bullet lists in a row.                                                  *)
(***************************************************************************)
MaxBlocks == 2
MaxWidth == 12

Widths == MinLineLength..MaxWidth

ParagraphTexts == { <<"a", "b", " ", "c", "d">>, <<"a", "b", " ", "-", "-", " ", "c", "d">>, <<"a", "b", "\n", "c", "d">> }

BlockPool ==
    { nodes_paragraph(t) : t \in ParagraphTexts }
    \cup { nodes_footnote(<<"1">>, <<nodes_paragraph(t)>>) : t \in {<<"a", "b", " ", "c", "d">>, <<"a", "b", " ", "-", "-", " ", "c", "d">>} }
    \cup { nodes_footnote(<<"1">>, <<nodes_paragraph(<<"a", "b">>), nodes_paragraph(<<"c", "d">>)>>),
           nodes_bullet_list(<<nodes_list_item(<<nodes_paragraph(<<"a", "b", " ", "c", "d">>)>>),
                               nodes_list_item(<<nodes_paragraph(<<"a", "b">>),
                                                 nodes_paragraph(<<"c", "d">>)>>),
                               nodes_list_item(<<nodes_paragraph(<<"c", "d">>)>>)>>),
           nodes_bullet_list(<<nodes_list_item(<<nodes_paragraph(<<"a", "b", " ", "-", "-", " ", "c", "d">>)>>)>>) }

Documents ==
    { blocks \in UNION {[1..k -> BlockPool] : k \in 1..MaxBlocks} :
         \A i \in 1..(Len(blocks) - 1) :
            ~(blocks[i].kind = "bullet_list" /\ blocks[i + 1].kind = "bullet_list") }

InitDoc ==
    /\ IdlePre
    /\ IdleCli
    /\ IdleTable
    /\ IdleAdorn
    /\ IdleCtx
    /\ IdleRun
    /\ IdleCache
    /\ IdleWrap
    /\ IdleDs
    /\ IdleNest
    /\ IdlePy
    /\ doc_pc = "parsed"
    /\ width \in Widths
    /\ doc \in {nodes_document(blocks) : blocks \in Documents}
    /\ output = <<>>
    /\ raised = <<>>
    /\ passes = <<>>

NextDoc == FormatNode \/ ParseString

SpecDoc == InitDoc /\ [][NextDoc]_vars


(***************************************************************************)
(* Tables.  A table node is modelled by its rows: `thead` holds the rows   *)
(* of the heading, `tbody` the rows of the body, a row is a sequence of    *)
(* entry nodes, and only tables without nested tables and spanning cells   *)
(* are drawn.  A dict keyed by column index is a sequence indexed from 1.  *)
(***************************************************************************)
with_width(context, w) == [context EXCEPT !.width = w]

\* max(lengths or [0])
RECURSIVE MaxOrZero(_)
MaxOrZero(lengths) ==
    IF lengths = <<>> THEN 0 ELSE Max(Head(lengths), MaxOrZero(Tail(lengths)))

\* max([len(line) for line in lines] or [0])
LongestLine(lines) == MaxOrZero([i \in 1..Len(lines) |-> Len(lines[i])])

\* the length of the longest line the children of a cell format to
CellWidth(cell, context) == LongestLine(Flatten(format_children(cell, context)))

\* Formatters._generate_table_matrix
generate_table_matrix(context, rows, w, widths) ==
    IF widths # <<>>
    THEN [r \in 1..Len(rows) |->
             [c \in 1..Len(rows[r]) |->
                 CellWidth(rows[r][c], with_width(context, widths[c]))]]
    ELSE [r \in 1..Len(rows) |->
             [c \in 1..Len(rows[r]) |-> CellWidth(rows[r][c], with_width(context, w))]]

\* {col_index: max([row[col_index] for row in matrix])}
ColumnLengths(matrix, column_count) ==
    [c \in 1..column_count |-> MaxOrZero([r \in 1..Len(matrix) |-> matrix[r][c]])]

RECURSIVE Sum(_)
Sum(lengths) == IF lengths = <<>> THEN 0 ELSE Head(lengths) + Sum(Tail(lengths))

\* _divide_evenly(width, column_count).pop(): the last and largest share
divide_evenly(w, column_count) ==
    (w \div column_count) + (IF w % column_count > 0 THEN 1 ELSE 0)

\* sorted(max_col_len.items(), key=lambda item: item[1]): the column indexes,
\* narrowest column first, columns of one width in their order
SortedColumns(max_col_len) ==
    [k \in 1..Len(max_col_len) |->
        CHOOSE c \in 1..Len(max_col_len) :
            Cardinality({d \in 1..Len(max_col_len) :
                            \/ max_col_len[d] < max_col_len[c]
                            \/ max_col_len[d] = max_col_len[c] /\ d < c}) = k - 1]

\* a loop that compresses a column without looking at its minimum width
CompressedBelowMinimum(column_width, proposed_column_length, min_len) ==
    IF column_width < proposed_column_length \/ column_width < 25 THEN column_width
    ELSE IF proposed_column_length < 25 THEN 25 ELSE proposed_column_length

\* the width the loop grants a column that no longer fits
Compressed(column_width, proposed_column_length, min_len) ==
    IF column_width < proposed_column_length \/ column_width < 25 THEN column_width
    ELSE IF proposed_column_length >= min_len
    THEN (IF proposed_column_length < 25 THEN 25 ELSE proposed_column_length)
    ELSE column_width

\* the loop of Formatters.table over the sorted columns, from the
\* column_progress-th on (counted from 0)
RECURSIVE CompressColumns(_, _, _, _, _, _, _)
CompressColumns(items, column_progress, current_width, lengths, total_width, min_col_len, max_col_len) ==
    IF column_progress >= Len(items) THEN lengths
    ELSE IF current_width + max_col_len[items[column_progress + 1]] <= total_width
    THEN CompressColumns(items, column_progress + 1,
                         current_width + max_col_len[items[column_progress + 1]],
                         [lengths EXCEPT ![items[column_progress + 1]] =
                             max_col_len[items[column_progress + 1]]],
                         total_width, min_col_len, max_col_len)
    ELSE CompressColumns(items, column_progress + 1, current_width,
                         [lengths EXCEPT ![items[column_progress + 1]] =
                             Compressed(max_col_len[items[column_progress + 1]],
                                        divide_evenly(total_width - current_width,
                                                      Len(items) - column_progress),
                                        min_col_len[items[column_progress + 1]])],
                         total_width, min_col_len, max_col_len)

\* rows of Formatters.table: the rows of the table in document order
TableRows(node) == node.thead \o node.tbody

ColumnCount(node) == Len(TableRows(node)[1])

\* total_width = context.width - column_count + 1
TotalWidth(node, context) == context.width - ColumnCount(node) + 1

\* min_col_len: the columns measured at the width nested_column_count * 2 - 1,
\* with the one tgroup of a table that holds no other table
MinColLen(node, context) ==
    ColumnLengths(generate_table_matrix(context, TableRows(node), 1, <<>>),
                  ColumnCount(node))

\* max_col_len: the columns measured at the total width
MaxColLen(node, context) ==
    ColumnLengths(generate_table_matrix(context, TableRows(node),
                                        TotalWidth(node, context), <<>>),
                  ColumnCount(node))

\* column_lengths when the loop is done; the dict stays empty when all fits
ColumnLengthsOf(total_width, min_col_len, max_col_len) ==
    IF Sum(max_col_len) <= total_width THEN <<>>
    ELSE CompressColumns(SortedColumns(max_col_len), 0, 0,
                         [c \in 1..Len(max_col_len) |-> 0],
                         total_width, min_col_len, max_col_len)

\* final_widths: the columns measured once more at the widths granted
FinalWidths(node, context, granted) ==
    ColumnLengths(generate_table_matrix(context, TableRows(node), <<>>, granted),
                  ColumnCount(node))

\* str.ljust
ljust(s, w) == IF Len(s) >= w THEN s ELSE s \o Spaces(w - Len(s))

\* the lines of a row whose entries format to the lines `all_lines`
RowLines(all_lines, column_widths) ==
    [l \in 1..MaxOrZero([c \in 1..Len(all_lines) |-> Len(all_lines[c])]) |->
        Join(<<" ">>,
             [c \in 1..Len(all_lines) |->
                 ljust(IF l <= Len(all_lines[c]) THEN all_lines[c][l] ELSE <<>>,
                       column_widths[c])])]

\* Formatters.row
row(node, context, column_widths) ==
    RowLines([c \in 1..Len(node) |->
                 chain_with_line_separator(
                     format_children(node[c], with_width(context, column_widths[c])))],
             column_widths)

\* Formatters.tbody, and thead
tbody(rows, context, column_widths) ==
    Flatten([r \in 1..Len(rows) |-> row(rows[r], context, column_widths)])

\* " ".join("=" * width for width in context.column_widths)
ColumnSeparator(column_widths) ==
    Join(<<" ">>, [c \in 1..Len(column_widths) |-> Repeat("=", column_widths[c])])

\* Formatters.tgroup
tgroup(node, context, column_widths) ==
    <<ColumnSeparator(column_widths)>>
    \o (IF node.thead = <<>> THEN <<>>
        ELSE tbody(node.thead, context, column_widths) \o <<ColumnSeparator(column_widths)>>)
    \o tbody(node.tbody, context, column_widths)
    \o <<ColumnSeparator(column_widths)>>

\* [line.rstrip(" ") for line in lines]
Stripped(lines) == [l \in 1..Len(lines) |-> rstrip(lines[l])]

\* Formatters.table from final_widths on: the context takes the widths and
\* the lines of the table group are yielded
Measured(node, context, lengths, widths) ==
    /\ column_lengths' = lengths
    /\ final_widths' = widths
    /\ table_lines' = Stripped(tgroup(node, context, widths))

\* Formatters.table from the choice of the branch on
Granted(node, context, max_col_len, lengths) ==
    Measured(node, context, lengths,
             FinalWidths(node, context, IF lengths = <<>> THEN max_col_len ELSE lengths))

\* Formatters.table
FormatTable ==
    /\ table_pc = "parsed"
    /\ table_pc' = "formatted"
    /\ Granted(table, table_context, MaxColLen(table, table_context),
               ColumnLengthsOf(TotalWidth(table, table_context),
                               MinColLen(table, table_context),
                               MaxColLen(table, table_context)))
    /\ UNCHANGED <<table, table_context, varsPre, varsCli, varsDoc, varsAdorn, varsCtx, varsRun, varsCache, varsWrap, varsDs, varsNest, varsPy>>

(***************************************************************************)
(* The tables of the table run: up to MaxColumns columns, a body row and   *)
(* at most one heading row.  A cell is empty or holds one paragraph.       *)
(***************************************************************************)
MaxColumns == 3

nodes_entry(kids) == Element("entry", <<>>, kids)

\* `count` words of four letters
RECURSIVE Words(_)
Words(count) ==
    IF count = 1 THEN <<"a", "b", "c", "d">> ELSE Words(count - 1) \o <<" ", "a", "b", "c", "d">>

\* a word of thirty letters and one of four
LongWord == <<"a", "b", "c", "d", "e", "f", "g", "h", "i", "j", "k", "l", "m", "n", "o", "p", "q", "r", "s", "t", "u", "v", "w", "x", "y", "z", "a", "b", "c", "d", " ", "a", "b", "c", "d">>

Cells ==
    {nodes_entry(<<>>),
     nodes_entry(<<nodes_paragraph(Words(2))>>),
     nodes_entry(<<nodes_paragraph(Words(6))>>),
     nodes_entry(<<nodes_paragraph(Words(11))>>),
     nodes_entry(<<nodes_paragraph(LongWord)>>)}

\* a heading row of `n` cells of two words
Heading(n) == [c \in 1..n |-> nodes_entry(<<nodes_paragraph(Words(2))>>)]

TableWidths == {20, 51, DEFAULT_LINE_LENGTH}

Tables ==
    UNION {[thead : {<<>>, <<Heading(n)>>},
            tbody : {<<body>> : body \in [1..n -> Cells]}] : n \in 1..MaxColumns}

InitTable ==
    /\ IdlePre
    /\ IdleCli
    /\ IdleDoc
    /\ IdleAdorn
    /\ IdleCtx
    /\ IdleRun
    /\ IdleCache
    /\ IdleWrap
    /\ IdleDs
    /\ IdleNest
    /\ IdlePy
    /\ table_pc = "parsed"
    /\ table \in Tables
    /\ table_context \in {FormatContext(w) : w \in TableWidths}
    /\ column_lengths = <<>>
    /\ final_widths = <<>>
    /\ table_lines = <<>>

NextTable == FormatTable

SpecTable == InitTable /\ [][NextTable]_vars


(***************************************************************************)
(* Section adornments: main() on a raw input, from the options -s and -pA  *)
(* to the titles of the output.                                            *)
(***************************************************************************)
\* "|" in value
HasBar(value) == \E i \in 1..Len(value) : value[i] = "|"

\* list(zip(chars, itertools.repeat(overline)))
Zipped(chars, overline) == [i \in 1..Len(chars) |-> <<chars[i], overline>>]

\* value.split("|", 1)
BarSplit(value, bar) ==
    Zipped(SubSeq(value, 1, bar - 1), TRUE) \o Zipped(SubSeq(value, bar + 1, Len(value)), FALSE)

\* _validate_adornments: the pairs, or click.BadParameter
validate_adornments(value) ==
    IF Len(value) # Cardinality({value[i] : i \in 1..Len(value)})
    THEN Raise("BadParameter", <<"S", "e", "c", "t", "i", "o", "n", " ", "a", "d", "o", "r", "n", "m", "e", "n", "t", "s", " ", "m", "u", "s", "t", " ", "b", "e", " ", "u", "n", "i", "q", "u", "e">>)
    ELSE IF HasBar(value)
    THEN BarSplit(value, CHOOSE i \in 1..Len(value) : value[i] = "|")
    ELSE Zipped(value, FALSE)

\* the callback of --section-adornments, run by click before main()
ValidateAdornments ==
    /\ adorn_pc = "invoked"
    /\ adorn_params' = validate_adornments(adorn_argv.section_adornments)
    /\ adorn_pc' = IF IsErr(validate_adornments(adorn_argv.section_adornments))
                   THEN "bad_parameter" ELSE "validated"
    /\ UNCHANGED <<adorn_argv, adorn_doc, adorn_manager, adorn_output, adorn_reported,
                   varsPre, varsCli, varsDoc, varsTable, varsCtx, varsRun, varsCache, varsWrap, varsDs, varsNest, varsPy>>

\* main() from the Manager on: the document is formatted and printed, or the
\* exception of the formatter ends the run behind the reporter's message
Processed(manager, formatted) ==
    /\ adorn_manager' = manager
    /\ IF IsErr(formatted)
       THEN /\ adorn_pc' = "raised"
            /\ adorn_reported' = Append(adorn_reported, formatted)
            /\ UNCHANGED adorn_output
       ELSE /\ adorn_pc' = "printed"
            /\ adorn_output' = formatted
            /\ UNCHANGED adorn_reported

\* Manager.format_node under a Manager with the given section_adornments
format_with(manager, w, node) ==
    Joined(perform_format(node, [FormatContext(w) EXCEPT !.manager = manager]))

\* main() with --raw-input: section_adornments is dropped under
\* --preserve-adornments, the Manager takes it and the input is formatted
RawInput(manager) ==
    Processed(manager, format_with(manager, DEFAULT_LINE_LENGTH, adorn_doc))

Main_raw_input ==
    /\ adorn_pc = "validated"
    /\ RawInput([section_adornments |->
                    IF adorn_argv.preserve_adornments THEN None ELSE Some(adorn_params)])
    /\ UNCHANGED <<adorn_argv, adorn_doc, adorn_params,
                   varsPre, varsCli, varsDoc, varsTable, varsCtx, varsRun, varsCache, varsWrap, varsDs, varsNest, varsPy>>

(***************************************************************************)
(* The raw inputs: documents of up to MaxTitles sections, nested up to     *)
(* MaxDepth deep.  An outline gives the depth of each title in document    *)
(* order; the sections of one depth are adorned alike in the source, as    *)
(* the parser demands.                                                     *)
(***************************************************************************)
MaxTitles == 3
MaxDepth == 3

\* the adornment styles of the sources: <<character, overline>>
SourceStyles == {<<"=", TRUE>>, <<"=", FALSE>>, <<"-", FALSE>>, <<"~", FALSE>>}

Outlines ==
    {o \in UNION {[1..n -> 1..MaxDepth] : n \in 1..MaxTitles} :
        /\ o[1] = 1
        /\ \A i \in 2..Len(o) : o[i] <= o[i - 1] + 1}

\* the styles of the depths of a source: no two depths alike
StyleLists ==
    {styles \in [1..MaxDepth -> SourceStyles] :
        \A d, e \in 1..MaxDepth : d # e => styles[d] # styles[e]}

\* the line of the underline of the i-th title: a title takes two lines,
\* three when overlined, and a blank line follows it
RECURSIVE TitleLine(_, _, _)
TitleLine(outline, styles, i) ==
    (IF i = 1 THEN 0 ELSE TitleLine(outline, styles, i - 1) + 1)
    + (IF styles[outline[i]][2] THEN 3 ELSE 2)

\* the text of the i-th title: the titles of a source differ in length
TitleText(i) ==
    CASE i % 3 = 1 -> <<"a", "b">>
      [] i % 3 = 2 -> <<"a", "b", " ", "c", "d", "e">>
      [] OTHER     -> <<"a">>

\* the title of the i-th section as the parser and _register_adornments
\* leave it
SourceTitle(outline, styles, i) ==
    Element("title",
            [character |-> styles[outline[i]][1], overline |-> styles[outline[i]][2],
             line |-> TitleLine(outline, styles, i)],
            <<nodes_Text(TitleText(i))>>)

\* the position behind the subsections of the i-th section
RECURSIVE SectionEnd(_, _, _)
SectionEnd(outline, i, j) ==
    IF j > Len(outline) \/ outline[j] <= outline[i] THEN j
    ELSE SectionEnd(outline, i, j + 1)

\* the sections of depth `depth` among the titles i..(end - 1)
RECURSIVE SourceSections(_, _, _, _, _)
SourceSections(outline, styles, i, end, depth) ==
    IF i >= end THEN <<>>
    ELSE <<Element("section", <<>>,
                   <<SourceTitle(outline, styles, i)>>
                   \o SourceSections(outline, styles, i + 1,
                                     SectionEnd(outline, i, i + 1), depth + 1))>>
         \o SourceSections(outline, styles, SectionEnd(outline, i, i + 1), end, depth)

SourceDocument(outline, styles) ==
    nodes_document(SourceSections(outline, styles, 1, Len(outline) + 1, 1))

\* the values of -s: the default, and lists of one, two and three
\* adornments, with overlines and without, and one that names "=" twice
\* const.SECTION_CHARS, the default of -s, without its backquote
SECTION_CHARS ==
    <<"#", "*", "|", "=", "-", "^", "\"", "'", "~", "+", ".", "_", ":">>

AdornmentOptions ==
    {SECTION_CHARS, <<"=">>, <<"-", "=">>, <<"~", "|", "=", "-">>, <<"=", "-", "=">>}

InitAdorn ==
    /\ IdlePre
    /\ IdleCli
    /\ IdleDoc
    /\ IdleTable
    /\ IdleCtx
    /\ IdleRun
    /\ IdleCache
    /\ IdleWrap
    /\ IdleDs
    /\ IdleNest
    /\ IdlePy
    /\ adorn_pc = "invoked"
    /\ adorn_argv \in [section_adornments : AdornmentOptions, preserve_adornments : BOOLEAN]
    /\ adorn_doc \in {SourceDocument(o, styles) : o \in Outlines, styles \in StyleLists}
    /\ adorn_params = <<>>
    /\ adorn_manager = <<>>
    /\ adorn_output = <<>>
    /\ adorn_reported = <<>>

NextAdorn == ValidateAdornments \/ Main_raw_input

SpecAdorn == InitAdorn /\ [][NextAdorn]_vars


(***************************************************************************)
(* Context objects.  A FormatContext is an object: _replace makes a new    *)
(* one, an assignment to a field changes the one at hand for everybody     *)
(* who holds it.  This part renders one list with its context objects      *)
(* kept in `ctx_objects`: object 1 is the context the list formatter is    *)
(* given, object 2 the one it makes for _list, which hands that very       *)
(* object to the list_item call of every item.                             *)
(***************************************************************************)
with_ordinal(context, current_ordinal) ==
    [context EXCEPT !.current_ordinal = current_ordinal]

with_ordinal_format(context, ordinal_format) ==
    [context EXCEPT !.ordinal_format = ordinal_format]

\* str(ordinal) of an ordinal below 100
Decimal(ordinal) ==
    (IF ordinal >= 10 THEN <<<<"0", "1", "2", "3", "4", "5", "6", "7", "8", "9">>[(ordinal \div 10) + 1]>> ELSE <<>>)
    \o <<<<"0", "1", "2", "3", "4", "5", "6", "7", "8", "9">>[(ordinal % 10) + 1]>>

\* util.make_enumerator(ordinal, sequence, ("", "."))
make_enumerator(ordinal, sequence) ==
    IF sequence = "arabic" THEN Decimal(ordinal) \o <<".">>
    ELSE IF ordinal > 26
    THEN Raise("ParserError", <<"a", "l", "p", "h", "a", "b", "e", "t", "i", "c", " ", "e", "n", "u", "m", "e", "r", "a", "t", "o", "r", "s", " ", "s", "u", "p", "p", "o", "r", "t", " ", "o", "n", "l", "y", " ", "u", "p", " ", "t", "o", " ", "2", "6", " ", "i", "t", "e", "m", "s">>)
    ELSE <<<<"a", "b", "c", "d", "e", "f", "g", "h", "i", "j", "k", "l", "m", "n", "o", "p", "q", "r", "s", "t", "u", "v", "w", "x", "y", "z">>[ordinal], ".">>

\* the context object list_item is given, behind the assignments list_item
\* makes to it: the bullet of an enumerated item, and the next ordinal
Enumerated(context) ==
    IF context.current_ordinal # 0 /\ context.bullet \notin {<<"-">>, <<"*">>, <<"+">>}
    THEN [context EXCEPT
             !.bullet = make_enumerator(context.current_ordinal, context.ordinal_format),
             !.current_ordinal = context.current_ordinal + 1]
    ELSE context

\* the fields of a context a formatter may come to assign
Fields(context) ==
    [bullet |-> context.bullet, current_ordinal |-> context.current_ordinal,
     first_line_len |-> context.first_line_len, is_docstring |-> context.is_docstring,
     width |-> context.width]

\* Formatters.bullet_list and Formatters.enumerated_list up to the call of
\* _list: the context of _list is made from the one given
EnterList ==
    /\ ctx_pc = "entered"
    /\ ctx_pc' = "listing"
    /\ ctx_objects' =
           Append(ctx_objects,
                  IF ctx_node.kind = "bullet_list" THEN with_bullet(ctx_objects[1], <<"-">>)
                  ELSE with_ordinal_format(with_ordinal(ctx_objects[1], ctx_node.attr.start),
                                           ctx_node.attr.enumtype))
    /\ UNCHANGED <<ctx_node, ctx_item, ctx_entry, ctx_lines,
                   varsPre, varsCli, varsDoc, varsTable, varsAdorn, varsRun, varsCache, varsWrap, varsDs, varsNest, varsPy>>

\* one round of the loop of _list: Formatters.list_item on the next item,
\* given object 2.  `given` is that object behind the assignments of
\* list_item; the item's children are rendered under a new object
ItemRendered(node, index, given) ==
    /\ ctx_objects' =
           Append([ctx_objects EXCEPT ![2] = given],
                  [indent(given, Len(given.bullet) + 1) EXCEPT !.bullet = <<>>])
    /\ ctx_lines' = ctx_lines \o list_item(node.kids[index], given)
                    \o (IF Len(node.kids[index].kids) > 1 /\ Len(node.kids) # index
                        THEN << <<>> >> ELSE <<>>)
    /\ ctx_item' = index

ListItem ==
    /\ ctx_pc = "listing"
    /\ ctx_item < Len(ctx_node.kids)
    /\ ctx_entry' = Append(ctx_entry, Fields(ctx_objects[2]))
    /\ ItemRendered(ctx_node, ctx_item + 1, Enumerated(ctx_objects[2]))
    /\ UNCHANGED <<ctx_pc, ctx_node, varsPre, varsCli, varsDoc, varsTable, varsAdorn, varsRun, varsCache, varsWrap, varsDs, varsNest, varsPy>>

\* the list formatter behind _list: enumerated_list sets current_ordinal of
\* the context it was given to 0
LeaveList ==
    /\ ctx_pc = "listing"
    /\ ctx_item = Len(ctx_node.kids)
    /\ ctx_pc' = "returned"
    /\ ctx_objects' =
           IF ctx_node.kind = "enumerated_list"
           THEN [ctx_objects EXCEPT ![1] = [ctx_objects[1] EXCEPT !.current_ordinal = 0]]
           ELSE ctx_objects
    /\ UNCHANGED <<ctx_node, ctx_item, ctx_entry, ctx_lines,
                   varsPre, varsCli, varsDoc, varsTable, varsAdorn, varsRun, varsCache, varsWrap, varsDs, varsNest, varsPy>>

(***************************************************************************)
(* The lists rendered: bullet lists and enumerated lists of up to MaxItems *)
(* items of one or two paragraphs.                                         *)
(***************************************************************************)
MaxItems == 3

ItemPool ==
    {nodes_list_item(<<nodes_paragraph(<<"a", "b", " ", "c", "d">>)>>),
     nodes_list_item(<<nodes_paragraph(<<"a", "b">>), nodes_paragraph(<<"c", "d">>)>>)}

\* start is the enumerated list's "start" attribute: the ordinal the parser
\* read from the first enumerator (0 included)
ListAttributes ==
    [start : {0, 1, 2}, enumtype : {"arabic", "loweralpha"}]

Lists ==
    UNION {{nodes_bullet_list(items) : items \in [1..n -> ItemPool]}
           \cup {Element("enumerated_list", attributes, items) :
                    attributes \in ListAttributes, items \in [1..n -> ItemPool]}
           : n \in 1..MaxItems}

InitCtx ==
    /\ IdlePre
    /\ IdleCli
    /\ IdleDoc
    /\ IdleTable
    /\ IdleAdorn
    /\ IdleRun
    /\ IdleCache
    /\ IdleWrap
    /\ IdleDs
    /\ IdleNest
    /\ IdlePy
    /\ ctx_pc = "entered"
    /\ ctx_node \in Lists
    /\ ctx_objects \in {<<FormatContext(w)>> : w \in {MinLineLength, DEFAULT_LINE_LENGTH}}
    /\ ctx_item = 0
    /\ ctx_entry = <<>>
    /\ ctx_lines = <<>>

NextCtx == EnterList \/ ListItem \/ LeaveList

SpecCtx == InitCtx /\ [][NextCtx]_vars


(***************************************************************************)
(*                  A run over several files (main.py)                     *)
(*                                                                         *)
(* main hands two or more files to _run_formatter, which gives every file  *)
(* of the to-do list to an executor as one call of _format_file and        *)
(* collects the results as the calls complete.  A document is named here   *)
(* by what parsing and formatting it does: "tidy" is returned unchanged,   *)
(* "untidy" is rewritten to "tidy", "code" holds a code block that cannot  *)
(* be formatted (counted, formatting goes on), "invalid" has structural    *)
(* errors (the batched error of parse_string), "field" has an invalid      *)
(* field (the single error of format_node), "directive" holds a directive  *)
(* whose content has structural errors (the batched error raised inside    *)
(* format_node) and "deep" is a docstring indented past the line length.   *)
(***************************************************************************)
MaxFiles == 2

MaxSignals == 1

ParsedSource(source) ==
    IF source = "invalid"
    THEN [raised |-> "InvalidRstErrors", error_count |-> 1]
    ELSE [raised |-> "", error_count |-> 0]

FormattedSource(source) ==
    CASE source = "untidy"    -> [raised |-> "", output |-> "tidy", error_count |-> 0]
      [] source = "code"      -> [raised |-> "", output |-> source, error_count |-> 1]
      [] source = "field"     -> [raised |-> "InvalidRstError", output |-> "", error_count |-> 0]
      [] source = "directive" -> [raised |-> "InvalidRstErrors", output |-> "", error_count |-> 1]
      [] OTHER                -> [raised |-> "", output |-> source, error_count |-> 0]

\* What a call made for a file hands back: the exception it raised, or the
\* pair (misformatted, error_count), and the text it wrote to the file.
Raising(kind) ==
    [raised |-> kind, misformatted |-> FALSE, error_count |-> 0, written |-> None]

Returning(misformatted, errors, written) ==
    [raised |-> "", misformatted |-> misformatted, error_count |-> errors,
     written |-> written]

\* The output replaces the file only without --check and without raw output.
Written(args, misformatted, code) ==
    IF misformatted /\ ~args.check /\ ~args.raw_output THEN Some(code) ELSE None

ProcessRst(args, input_string, parsed, formatted) ==
    IF parsed.raised # "" THEN Raising(parsed.raised)
    ELSE IF formatted.raised # "" THEN Raising(formatted.raised)
    ELSE Returning(formatted.output # input_string[1], formatted.error_count,
                   Written(args, formatted.output # input_string[1], <<formatted.output>>))

_process_rst(args, input_string) ==
    ProcessRst(args, input_string, ParsedSource(input_string[1]), FormattedSource(input_string[1]))

\* the Visitor of a file, with the error_count of the Manager it holds
Visitor ==
    [raised |-> "", misformatted |-> FALSE, error_count |-> 0, code |-> <<>>,
     manager_error_count |-> 0]

LeaveSimpleString(visitor, source, parsed, formatted) ==
    IF visitor.raised # "" THEN visitor
    ELSE IF parsed.raised # "" THEN [visitor EXCEPT !.raised = parsed.raised]
    ELSE IF source = "deep"
    THEN [visitor EXCEPT !.raised = "ValueError", !.error_count = @ + 1]
    ELSE IF formatted.raised = "InvalidRstErrors"
    THEN [visitor EXCEPT !.error_count = @ + 1, !.code = Append(@, source),
                         !.manager_error_count = @ + formatted.error_count]
    ELSE IF formatted.raised # "" THEN [visitor EXCEPT !.raised = formatted.raised]
    ELSE [visitor EXCEPT !.error_count = @ + visitor.manager_error_count + formatted.error_count,
                         !.manager_error_count = 0,
                         !.misformatted = @ \/ formatted.output # source,
                         !.code = Append(@, formatted.output)]

leave_SimpleString(visitor, source) ==
    LeaveSimpleString(visitor, source, ParsedSource(source), FormattedSource(source))

RECURSIVE Visit(_, _)
Visit(visitor, docstrings) ==
    IF docstrings = <<>> THEN visitor
    ELSE Visit(leave_SimpleString(visitor, Head(docstrings)), Tail(docstrings))

ProcessPython(args, visitor) ==
    IF visitor.raised # "" THEN Raising(visitor.raised)
    ELSE Returning(visitor.misformatted, visitor.error_count,
                   Written(args, visitor.misformatted, visitor.code))

_process_python(args, input_string) == ProcessPython(args, Visit(Visitor, input_string))

\* Reading the file comes before the try block; every Exception raised after
\* it becomes one error of the file.
Caught(processed) ==
    IF processed.raised # "" THEN Returning(FALSE, 1, None) ELSE processed

_format_file(args, file) ==
    IF ~file.decodable THEN Raising("UnicodeDecodeError")
    ELSE IF file.suffix = "py" THEN Caught(_process_python(args, file.text))
    ELSE IF file.suffix = "rst" THEN Caught(_process_rst(args, file.text))
    ELSE Returning(FALSE, 0, None)

gen_todo_list(files, cache) == {file \in files : file \notin cache}

AfterWrite(file, written) ==
    IF written = None THEN file ELSE [file EXCEPT !.text = written[1]]

\* _run_formatter up to its loop: one task per file of the to-do list.
RunFormatter ==
    /\ run_pc = "start"
    /\ run_pc' = "loop"
    /\ run_tasks' = gen_todo_list(DOMAIN run_disk, run_cache)
    /\ run_workers' = [file \in DOMAIN run_disk |->
                         [state |-> IF file \in run_cache THEN "none" ELSE "queued",
                          calls |-> 0, at_cancel |-> "", written |-> None]]
    /\ run_futures' = [file \in DOMAIN run_disk |->
                         [state |-> IF file \in run_cache THEN "none" ELSE "pending",
                          misformatted |-> FALSE, error_count |-> 0]]
    /\ run_totals' = [error_count |-> 0, misformatted_files |-> {},
                      files_to_cache |-> <<>>, cancelled |-> {}, cache_writes |-> 0]
    /\ UNCHANGED <<run_args, run_before, run_disk, run_cache, run_signals>>
    /\ UNCHANGED <<varsPre, varsCli, varsDoc, varsTable, varsAdorn, varsCtx, varsCache, varsWrap, varsDs, varsNest, varsPy>>

\* The executor begins the call made for a file.
StartCall ==
    \E file \in DOMAIN run_workers :
        /\ run_workers[file].state = "queued"
        /\ run_workers' = [run_workers EXCEPT ![file].state = "running",
                                              ![file].calls = @ + 1]
        /\ UNCHANGED <<run_pc, run_args, run_before, run_disk, run_cache, run_futures,
                       run_tasks, run_totals, run_signals>>
        /\ UNCHANGED <<varsPre, varsCli, varsDoc, varsTable, varsAdorn, varsCtx, varsCache, varsWrap, varsDs, varsNest, varsPy>>

Completed(future, result) ==
    IF future.state # "pending" THEN future
    ELSE IF result.raised # "" THEN [future EXCEPT !.state = "exception"]
    ELSE [state |-> "result", misformatted |-> result.misformatted,
          error_count |-> result.error_count]

\* The call of _format_file for a file runs to its end in its worker.
FormatFileOf(file, result) ==
    /\ run_workers' = [run_workers EXCEPT
                         ![file].state = IF result.raised # "" THEN "raised" ELSE "returned",
                         ![file].written = result.written]
    /\ run_disk' = [run_disk EXCEPT ![file] = AfterWrite(@, result.written)]
    /\ run_futures' = [run_futures EXCEPT ![file] = Completed(@, result)]

FormatFile ==
    \E file \in DOMAIN run_workers :
        /\ run_workers[file].state = "running"
        /\ FormatFileOf(file, _format_file(run_args, run_disk[file]))
        /\ UNCHANGED <<run_pc, run_args, run_before, run_cache, run_tasks, run_totals,
                       run_signals>>
        /\ UNCHANGED <<varsPre, varsCli, varsDoc, varsTable, varsAdorn, varsCtx, varsCache, varsWrap, varsDs, varsNest, varsPy>>

\* The signal handler: task.cancel() for every task still in the dictionary.
\* A call the executor has not begun is dropped or is begun all the same (the
\* executor has already taken it into its call queue); a call that runs is
\* not stopped.
cancel ==
    /\ run_pc = "loop"
    /\ run_signals < MaxSignals
    /\ run_tasks # {}
    /\ run_signals' = run_signals + 1
    /\ run_futures' = [file \in DOMAIN run_futures |->
                         IF file \in run_tasks /\ run_futures[file].state = "pending"
                         THEN [run_futures[file] EXCEPT !.state = "cancelled"]
                         ELSE run_futures[file]]
    /\ \E dropped \in SUBSET {file \in run_tasks : run_workers[file].state = "queued"} :
           run_workers' = [file \in DOMAIN run_workers |->
                             IF file \in run_tasks /\ run_futures[file].state = "pending"
                             THEN [run_workers[file] EXCEPT
                                     !.state = IF file \in dropped THEN "dropped" ELSE @,
                                     !.at_cancel = run_workers[file].state]
                             ELSE run_workers[file]]
    /\ UNCHANGED <<run_pc, run_args, run_before, run_disk, run_cache, run_tasks, run_totals>>
    /\ UNCHANGED <<varsPre, varsCli, varsDoc, varsTable, varsAdorn, varsCtx, varsCache, varsWrap, varsDs, varsNest, varsPy>>

Cacheable(args, future) ==
    /\ ~(future.misformatted /\ args.raw_output) \/ (args.check /\ ~future.misformatted)
    /\ future.error_count = 0

\* The loop body without its branch for a task that raised.
CollectedWithoutExceptions(totals, args, file, future) ==
    IF future.state = "cancelled"
    THEN [totals EXCEPT !.cancelled = @ \cup {file}]
    ELSE IF future.state = "exception"
    THEN totals
    ELSE [totals EXCEPT
            !.error_count = @ + future.error_count,
            !.misformatted_files = IF future.misformatted THEN @ \cup {file} ELSE @,
            !.files_to_cache = IF Cacheable(args, future) THEN Append(@, file) ELSE @]

\* One pass of the loop body for a task that is done.
Collected(totals, args, file, future) ==
    IF future.state = "cancelled"
    THEN [totals EXCEPT !.cancelled = @ \cup {file}]
    ELSE IF future.state = "exception"
    THEN [totals EXCEPT !.error_count = @ + 1]
    ELSE [totals EXCEPT
            !.error_count = @ + future.error_count,
            !.misformatted_files = IF future.misformatted THEN @ \cup {file} ELSE @,
            !.files_to_cache = IF Cacheable(args, future) THEN Append(@, file) ELSE @]

Collect ==
    \E file \in run_tasks :
        /\ run_pc = "loop"
        /\ run_futures[file].state # "pending"
        /\ run_tasks' = run_tasks \ {file}
        /\ run_totals' = Collected(run_totals, run_args, file, run_futures[file])
        /\ UNCHANGED <<run_pc, run_args, run_before, run_disk, run_cache, run_workers,
                       run_futures, run_signals>>
        /\ UNCHANGED <<varsPre, varsCli, varsDoc, varsTable, varsAdorn, varsCtx, varsCache, varsWrap, varsDs, varsNest, varsPy>>

Range(sequence) == {sequence[i] : i \in 1..Len(sequence)}

\* The end of _run_formatter: the loop is over, the cache is written.
WriteCache ==
    /\ run_pc = "loop"
    /\ run_tasks = {}
    /\ run_pc' = "done"
    /\ run_cache' = run_cache \cup Range(run_totals.files_to_cache)
    /\ run_totals' = [run_totals EXCEPT
                        !.cache_writes = IF run_totals.files_to_cache # <<>>
                                         THEN @ + 1 ELSE @]
    /\ UNCHANGED <<run_args, run_before, run_disk, run_workers, run_futures, run_tasks,
                   run_signals>>
    /\ UNCHANGED <<varsPre, varsCli, varsDoc, varsTable, varsAdorn, varsCtx, varsCache, varsWrap, varsDs, varsNest, varsPy>>

File(suffix, documents) == [suffix |-> suffix, decodable |-> TRUE, text |-> documents]

Sources ==
    {File("rst", <<"tidy">>), File("rst", <<"untidy">>), File("rst", <<"invalid">>),
     File("rst", <<"field">>), File("rst", <<"code">>), File("txt", <<"untidy">>),
     File("py", <<"untidy", "directive">>), File("py", <<"untidy", "invalid">>),
     File("py", <<"deep">>),
     [suffix |-> "rst", decodable |-> FALSE, text |-> <<"untidy">>]}

InitRun ==
    /\ run_pc = "start"
    /\ run_args \in [check : BOOLEAN, raw_output : BOOLEAN]
    /\ \E count \in 2..MaxFiles : run_disk \in [1..count -> Sources]
    /\ run_before = run_disk
    /\ run_cache \in {{}, {1}}
    /\ run_workers = <<>>
    /\ run_futures = <<>>
    /\ run_tasks = {}
    /\ run_totals = <<>>
    /\ run_signals = 0
    /\ IdlePre
    /\ IdleCli
    /\ IdleDoc
    /\ IdleTable
    /\ IdleAdorn
    /\ IdleCtx
    /\ IdleCache
    /\ IdleWrap
    /\ IdleDs
    /\ IdleNest
    /\ IdlePy

NextRun == RunFormatter \/ StartCall \/ FormatFile \/ cancel \/ Collect \/ WriteCache

SpecRun == InitRun /\ [][NextRun]_vars


(***************************************************************************)
(*        Runs that share a cache directory (util.py FileCache)            *)
(*                                                                         *)
(* A file on disk holds text that is either not formatted ("untidy"), not  *)
(* parseable ("invalid"), or the output of the formatter for some choice   *)
(* of the options that shape the output; its info (mtime, size) is a stamp *)
(* that every write advances.  The files are such that every one of those  *)
(* options shows in their output.                                          *)
(***************************************************************************)
MaxRuns == 2

CacheFiles == 2

Params ==
    [check : BOOLEAN, line_length : {79, 88}, mode : {"py311", "py312"},
     docstring_trailing_line : BOOLEAN, format_python_code_blocks : BOOLEAN,
     include_txt : BOOLEAN, section_adornments : {"default", "=-"},
     preserve_adornments : BOOLEAN]

\* The name of the cache file of a run.
_get_cache_filename(options) ==
    <<options.docstring_trailing_line, options.format_python_code_blocks,
      options.include_txt, options.line_length, options.mode>>

\* The options handed to Manager and to format_node: what shapes the output.
OutputOptions(options) ==
    [line_length |-> options.line_length, mode |-> options.mode,
     docstring_trailing_line |-> options.docstring_trailing_line,
     format_python_code_blocks |-> options.format_python_code_blocks,
     section_adornments |-> IF options.preserve_adornments THEN "preserved"
                            ELSE options.section_adornments]

FormattedFor(options) == <<"tidy", OutputOptions(options)>>

_get_file_info(file) == file.stamp

_read_cache(directory, name) == IF name \in DOMAIN directory THEN directory[name] ELSE {}

\* FileCache.gen_todo_list: a file is done when the dictionary holds its info.
TodoList(files, loaded) ==
    {file \in DOMAIN files : <<file, _get_file_info(files[file])>> \notin loaded}

\* _process_rst for one file, and what the loop of _run_formatter makes of it.
CacheProcessed(options, file) ==
    IF file.text = <<"invalid">>
    THEN [misformatted |-> FALSE, errors |-> 1, file |-> file]
    ELSE IF file.text = FormattedFor(options)
    THEN [misformatted |-> FALSE, errors |-> 0, file |-> file]
    ELSE [misformatted |-> TRUE, errors |-> 0,
          file |-> IF options.check THEN file
                   ELSE [text |-> FormattedFor(options), stamp |-> file.stamp + 1]]

Results(options, files, todo) ==
    [file \in todo |-> CacheProcessed(options, files[file])]

FilesAfter(files, results) ==
    [file \in DOMAIN files |->
        IF file \in DOMAIN results THEN results[file].file ELSE files[file]]

FilesToCache(options, results) ==
    {file \in DOMAIN results :
        Cacheable([check |-> options.check, raw_output |-> FALSE],
                  [misformatted |-> results[file].misformatted,
                   error_count |-> results[file].errors])}

MisformattedFiles(results) == {file \in DOMAIN results : results[file].misformatted}

RECURSIVE ErrorCount(_, _)
ErrorCount(results, count) ==
    IF count = 0 THEN 0
    ELSE ErrorCount(results, count - 1)
         + (IF count \in DOMAIN results THEN results[count].errors ELSE 0)

\* FileCache.write_cache: the loaded dictionary, with the entries of the
\* files to cache replaced by their info as it is now.
write_cache(directory, name, loaded, files, to_cache) ==
    IF to_cache = {} THEN directory
    ELSE [key \in DOMAIN directory \cup {name} |->
            IF key = name
            THEN {entry \in loaded : entry[1] \notin to_cache}
                 \cup {<<file, _get_file_info(files[file])>> : file \in to_cache}
            ELSE directory[key]]

ExitCode(options, misformatted_files, errors) ==
    IF (options.check /\ misformatted_files # {}) \/ errors > 0 THEN 1 ELSE 0

Report(options, skipped, results, files) ==
    [options |-> options, skipped |-> skipped,
     cached |-> FilesToCache(options, results),
     misformatted_files |-> MisformattedFiles(results),
     exit_code |-> ExitCode(options, MisformattedFiles(results),
                            ErrorCount(results, Len(files))),
     files |-> files]

\* main up to the run: the parameters are given and FileCache reads the
\* dictionary stored under the cache file name of the run.
NewFileCache ==
    /\ cache_pc = "ready"
    /\ Len(cache_reports) < MaxRuns
    /\ cache_pc' = "loaded"
    /\ cache_params' \in Params
    /\ cache_loaded' = _read_cache(cache_dir, _get_cache_filename(cache_params'))
    /\ UNCHANGED <<cache_files, cache_dir, cache_reports>>
    /\ UNCHANGED <<varsPre, varsCli, varsDoc, varsTable, varsAdorn, varsCtx, varsRun, varsWrap, varsDs, varsNest, varsPy>>

RunToEndWith(todo, results) ==
    /\ cache_files' = FilesAfter(cache_files, results)
    /\ cache_dir' = write_cache(cache_dir, _get_cache_filename(cache_params), cache_loaded,
                                cache_files', FilesToCache(cache_params, results))
    /\ cache_reports' = Append(cache_reports,
                               Report(cache_params, DOMAIN cache_files \ todo, results,
                                      cache_files'))

\* _run_formatter, undisturbed by signals, and the end of main.
RunToEnd ==
    /\ cache_pc = "loaded"
    /\ cache_pc' = "ready"
    /\ RunToEndWith(TodoList(cache_files, cache_loaded),
                    Results(cache_params, cache_files, TodoList(cache_files, cache_loaded)))
    /\ UNCHANGED <<cache_params, cache_loaded>>
    /\ UNCHANGED <<varsPre, varsCli, varsDoc, varsTable, varsAdorn, varsCtx, varsRun, varsWrap, varsDs, varsNest, varsPy>>

InitCache ==
    /\ cache_pc = "ready"
    /\ cache_params = <<>>
    /\ cache_files \in [1..CacheFiles -> [text : {<<"untidy">>, <<"invalid">>}, stamp : {1}]]
    /\ cache_dir = <<>>
    /\ cache_loaded = {}
    /\ cache_reports = <<>>
    /\ IdlePre
    /\ IdleCli
    /\ IdleDoc
    /\ IdleTable
    /\ IdleAdorn
    /\ IdleCtx
    /\ IdleRun
    /\ IdleWrap
    /\ IdleDs
    /\ IdleNest
    /\ IdlePy

NextCache == NewFileCache \/ RunToEnd

SpecCache == InitCache /\ [][NextCache]_vars


(***************************************************************************)
(*                     Calls of _wrap_text                                 *)
(*                                                                         *)
(* The items are those of a run of inline nodes: texts and inline markup   *)
(* in turn, the empty text only between two markups (where the source has  *)
(* backslash-space between them).                                          *)
(***************************************************************************)
MaxInline == 3

WrapText ==
    /\ wrap_pc = "called"
    /\ wrap_pc' = "wrapped"
    /\ wrap_lines' = IF wrap_width = None THEN wrap_text_unbounded(wrap_items)
                     ELSE wrap_text(wrap_width[1], wrap_items, wrap_context)
    /\ UNCHANGED <<wrap_width, wrap_items, wrap_context>>
    /\ UNCHANGED <<varsPre, varsCli, varsDoc, varsTable, varsAdorn, varsCtx, varsRun, varsCache, varsDs, varsNest, varsPy>>

InlineTexts ==
    {<<>>, <<" ">>, <<"a", "b">>, <<"a", "b", " ">>, <<" ", "a", "b">>, <<"a", "(">>,
     <<".", "a">>, <<"a", "b", " ", "c", "d", "e", " ", "f">>, <<"a", "b", "\n", "c">>,
     <<"a", "b", no_break_space>>, <<no_break_space, "a", "b">>}

InlineMarkups ==
    {inline_markup(<<"*", "c", "d", "*">>), inline_markup(<<"*", "c", " ", "d", "e", "*">>)}

\* texts and markups in turn; an empty text stands between two markups
InlineRuns ==
    {items \in UNION {[1..n -> InlineTexts \cup InlineMarkups] : n \in 1..MaxInline} :
        /\ \A i \in 1..(Len(items) - 1) : IsMarkup(items[i]) # IsMarkup(items[i + 1])
        /\ \A i \in 1..Len(items) : items[i] = <<>> => 1 < i /\ i < Len(items)}

WrapWidths == {None, Some(1), Some(4), Some(6), Some(9), Some(12)}

InitWrap ==
    /\ wrap_pc = "called"
    /\ wrap_width \in WrapWidths
    /\ wrap_items \in InlineRuns
    /\ wrap_context \in {[FormatContext(DEFAULT_LINE_LENGTH) EXCEPT !.first_line_len = n] :
                            n \in {0, 3, 5}}
    /\ wrap_lines = <<>>
    /\ IdlePre
    /\ IdleCli
    /\ IdleDoc
    /\ IdleTable
    /\ IdleAdorn
    /\ IdleCtx
    /\ IdleRun
    /\ IdleCache
    /\ IdleDs
    /\ IdleNest
    /\ IdlePy

NextWrap == WrapText

SpecWrap == InitWrap /\ [][NextWrap]_vars


(***************************************************************************)
(* The is_docstring flag.  Manager.format_node makes one FormatContext     *)
(* with is_docstring as given; Formatters.paragraph renders without a      *)
(* width when the context object it is given has the flag set, and clears  *)
(* the flag on that object.  The formatters between the document and the   *)
(* paragraph hand on either the object they were given or a copy of it     *)
(* (_replace), and an assignment to a copy is not seen through the         *)
(* original.  A state st of the rendering is the flag of the context       *)
(* object given and the widths of the paragraphs rendered so far.          *)
(***************************************************************************)
\* the state behind a formatter that rendered under a copy of the context
\* object it was given: the object given keeps its flag
UnderCopy(given, rendered) == [flag |-> given.flag, pars |-> rendered.pars]

\* Formatters.paragraph: context.is_docstring = False; with_width(None)
ParagraphWidth(w, st) ==
    [flag |-> FALSE, pars |-> Append(st.pars, IF st.flag THEN None ELSE Some(w))]

RECURSIVE PerformFormatWidths(_, _, _)
RECURSIVE FormatChildrenWidths(_, _, _, _)
RECURSIVE ListWidths(_, _, _, _)

\* Formatters._format_children behind _chain_with_line_separator: the
\* first child is rendered with the context object itself, every later one
\* with context.wrap_first_at(0), a copy made when the child is reached
FormatChildrenWidths(kids, index, w, st) ==
    IF index > Len(kids) THEN st
    ELSE IF index = 1
    THEN FormatChildrenWidths(kids, 2, w, PerformFormatWidths(kids[1], w, st))
    ELSE FormatChildrenWidths(kids, index + 1, w,
                              UnderCopy(st, PerformFormatWidths(kids[index], w, st)))

\* Formatters._list: every item is rendered with the one context object of
\* the list
ListWidths(kids, index, w, st) ==
    IF index > Len(kids) THEN st
    ELSE ListWidths(kids, index + 1, w, PerformFormatWidths(kids[index], w, st))

\* Manager.perform_format for the formatters that lead to a paragraph:
\* section renders under context.in_section(), block_quote under
\* context.indent(4), bullet_list under context.with_bullet("-") and
\* list_item under context.indent(width), each of them a copy
PerformFormatWidths(node, w, st) ==
    IF node.kind = "paragraph" THEN ParagraphWidth(w, st)
    ELSE IF node.kind = "document" THEN FormatChildrenWidths(node.kids, 1, w, st)
    ELSE IF node.kind = "section"
    THEN UnderCopy(st, FormatChildrenWidths(node.kids, 1, w, st))
    ELSE IF node.kind = "block_quote"
    THEN UnderCopy(st, FormatChildrenWidths(node.kids, 1, Max(1, w - 4), st))
    ELSE IF node.kind = "bullet_list"
    THEN UnderCopy(st, ListWidths(node.kids, 1, w, st))
    ELSE IF node.kind = "list_item"
    THEN UnderCopy(st, FormatChildrenWidths(node.kids, 1, Max(1, w - 2), st))
    ELSE st

\* Manager.format_node(width, node, is_docstring)
FormatDocstring ==
    /\ ds_pc = "parsed"
    /\ ds_pc' = "formatted"
    /\ ds_widths' = PerformFormatWidths(ds_doc, ds_width, [flag |-> ds_docstring, pars |-> <<>>]).pars
    /\ UNCHANGED <<ds_doc, ds_docstring, ds_width,
                   varsPre, varsCli, varsDoc, varsTable, varsAdorn, varsCtx, varsRun, varsCache, varsWrap, varsNest, varsPy>>

(***************************************************************************)
(* The docstrings formatted: documents of up to MaxParts top-level         *)
(* children, each a paragraph, a bullet list, a block quote or a section.  *)
(***************************************************************************)
MaxParts == 2

nodes_block_quote(kids) == Element("block_quote", <<>>, kids)

DocstringParagraph == nodes_paragraph(<<"a", "b", " ", "c", "d">>)

DocstringParts ==
    {DocstringParagraph,
     nodes_bullet_list(<<nodes_list_item(<<DocstringParagraph>>)>>),
     nodes_bullet_list(<<nodes_list_item(<<DocstringParagraph, DocstringParagraph>>)>>),
     nodes_bullet_list(<<nodes_list_item(<<DocstringParagraph>>),
                         nodes_list_item(<<DocstringParagraph>>)>>),
     nodes_block_quote(<<DocstringParagraph>>),
     nodes_block_quote(<<DocstringParagraph, DocstringParagraph>>),
     nodes_section(<<"a", "b">>, <<DocstringParagraph>>),
     nodes_section(<<"a", "b">>, <<DocstringParagraph, DocstringParagraph>>)}

Docstrings ==
    UNION {{nodes_document(parts) : parts \in [1..n -> DocstringParts]} : n \in 1..MaxParts}

InitDs ==
    /\ IdlePre
    /\ IdleCli
    /\ IdleDoc
    /\ IdleTable
    /\ IdleAdorn
    /\ IdleCtx
    /\ IdleRun
    /\ IdleCache
    /\ IdleWrap
    /\ IdleNest
    /\ IdlePy
    /\ ds_pc = "parsed"
    /\ ds_doc \in Docstrings
    /\ ds_docstring \in BOOLEAN
    /\ ds_width \in {MinLineLength, DEFAULT_LINE_LENGTH}
    /\ ds_widths = <<>>

NextDs == FormatDocstring

SpecDs == InitDs /\ [][NextDs]_vars


(***************************************************************************)
(* Nested content.  The Manager keeps the text being formatted, its line   *)
(* offset and whether it is a docstring in original_text, current_offset   *)
(* and _in_docstring; Manager.get_code_line looks a piece of code up in    *)
(* original_text.  A directive that is neither raw nor a code block has    *)
(* its content parsed by parse_string, and a code block in rst is parsed   *)
(* by parse_string and formatted by format_node.                           *)
(***************************************************************************)
\* sub in s
IsIn(sub, s) ==
    \E i \in 1..(Len(s) - Len(sub) + 1) : SubSeq(s, i, i + Len(sub) - 1) = sub

\* s.endswith(suffix)
EndsWith(s, suffix) ==
    Len(s) >= Len(suffix) /\ SubSeq(s, Len(s) - Len(suffix) + 1, Len(s)) = suffix

\* the test get_code_line makes of a line of the text against a line of code
CodeInLine(line, code_line, strict) ==
    IF strict THEN EndsWith(line, code_line) ELSE IsIn(code_line, line)

\* the inner loop of get_code_line: the lines of the code against the lines
\* of the text from line_number on
RECURSIVE CodeAt(_, _, _, _, _)
CodeAt(lines, code_lines, strict, line_number, offset) ==
    IF offset >= Len(code_lines) THEN "found"
    ELSE IF line_number + offset > Len(lines) THEN "IndexError"
    ELSE IF ~CodeInLine(lines[line_number + offset], code_lines[offset + 1], strict) THEN "break"
    ELSE CodeAt(lines, code_lines, strict, line_number, offset + 1)

\* the outer loop of get_code_line from line_number on
RECURSIVE CodeLineFrom(_, _, _, _, _, _)
CodeLineFrom(lines, code_lines, strict, multiple, code_offset, line_number) ==
    IF line_number > Len(lines) THEN [raised |-> "ValueError", line |-> 0]
    ELSE IF ~CodeInLine(lines[line_number], code_lines[1], strict)
    THEN CodeLineFrom(lines, code_lines, strict, multiple, code_offset, line_number + 1)
    ELSE IF ~multiple THEN [raised |-> "", line |-> line_number + code_offset]
    ELSE IF CodeAt(lines, code_lines, strict, line_number, 0) = "found"
    THEN [raised |-> "", line |-> line_number + (Len(code_lines) - 1) + code_offset]
    ELSE IF CodeAt(lines, code_lines, strict, line_number, 0) = "IndexError"
    THEN [raised |-> "IndexError", line |-> 0]
    ELSE CodeLineFrom(lines, code_lines, strict, multiple, code_offset, line_number + 1)

\* Manager.get_code_line(code, strict)
get_code_line(manager, code, strict) ==
    CodeLineFrom(splitlines(manager.original_text), splitlines(code), strict,
                 Cardinality({i \in 1..Len(splitlines(manager.original_text)) :
                                 IsIn(splitlines(code)[1], splitlines(manager.original_text)[i])}) > 1,
                 manager.current_offset - (IF manager._in_docstring THEN 1 ELSE 0),
                 1)

\* the assignments of Manager.parse_string(text, line_offset)
parse_string(manager, string, line_offset) ==
    [manager EXCEPT !.original_text = string, !.current_offset = line_offset]

\* the assignment of Manager.format_node(width, node, is_docstring)
format_node_of(manager, is_docstring) ==
    [manager EXCEPT !._in_docstring = is_docstring]

\* the source lines of a block: a paragraph, or a directive with its content
\* indented by four blanks
BlockLines(block) ==
    IF block.kind = "paragraph" THEN <<block.content, <<>>>>
    ELSE <<block.head, <<>>, Spaces(4) \o block.content, <<>>>>

RECURSIVE SourceLines(_)
SourceLines(blocks) ==
    IF blocks = <<>> THEN <<>> ELSE BlockLines(Head(blocks)) \o SourceLines(Tail(blocks))

\* directive.content_offset: the lines of the document before the content
RECURSIVE content_offset(_, _)
content_offset(blocks, index) ==
    IF index = 1 THEN 2 ELSE Len(BlockLines(Head(blocks))) + content_offset(Tail(blocks), index - 1)

\* Manager.parse_string of the file or docstring: the Manager is made with
\* current_offset 0, an empty original_text and _in_docstring False
ParseEnclosing ==
    /\ nest_pc = "read"
    /\ nest_pc' = "parsed"
    /\ nest_manager' = parse_string(nest_manager, nest_text, nest_offset)
    /\ UNCHANGED <<nest_blocks, nest_text, nest_offset, nest_docstring, nest_index,
                   varsPre, varsCli, varsDoc, varsTable, varsAdorn, varsCtx, varsRun, varsCache, varsWrap, varsDs, varsPy>>

\* Manager.format_node of the enclosing document, up to its first block
FormatEnclosing ==
    /\ nest_pc = "parsed"
    /\ nest_pc' = "rendering"
    /\ nest_manager' = format_node_of(nest_manager, nest_docstring)
    /\ UNCHANGED <<nest_blocks, nest_text, nest_offset, nest_docstring, nest_index,
                   varsPre, varsCli, varsDoc, varsTable, varsAdorn, varsCtx, varsRun, varsCache, varsWrap, varsDs, varsPy>>

\* Formatters.paragraph on the next block
RenderParagraph ==
    /\ nest_pc = "rendering"
    /\ nest_index < Len(nest_blocks)
    /\ nest_blocks[nest_index + 1].kind = "paragraph"
    /\ nest_index' = nest_index + 1
    /\ UNCHANGED <<nest_pc, nest_blocks, nest_text, nest_offset, nest_docstring, nest_manager,
                   varsPre, varsCli, varsDoc, varsTable, varsAdorn, varsCtx, varsRun, varsCache, varsWrap, varsDs, varsPy>>

\* Formatters.directive on the next block, a directive that is neither raw
\* nor a code block: its content goes through parse_string
RenderDirective ==
    /\ nest_pc = "rendering"
    /\ nest_index < Len(nest_blocks)
    /\ nest_blocks[nest_index + 1].kind = "directive"
    /\ nest_index' = nest_index + 1
    /\ nest_manager' = parse_string(nest_manager, nest_blocks[nest_index + 1].content,
                                    nest_manager.current_offset
                                    + content_offset(nest_blocks, nest_index + 1))
    /\ UNCHANGED <<nest_pc, nest_blocks, nest_text, nest_offset, nest_docstring,
                   varsPre, varsCli, varsDoc, varsTable, varsAdorn, varsCtx, varsRun, varsCache, varsWrap, varsDs, varsPy>>

\* CodeFormatters.rst behind get_code_line returning line
RstFormatted(manager, code, line) ==
    format_node_of(parse_string(manager, code, line - 1), FALSE)

\* Formatters.directive on the next block, a code block in rst:
\* CodeFormatters.rst looks the code up, parses it and formats it; the
\* ValueError of get_code_line is not caught
RenderRstCodeBlock ==
    /\ nest_pc = "rendering"
    /\ nest_index < Len(nest_blocks)
    /\ nest_blocks[nest_index + 1].kind = "code-block"
    /\ IF get_code_line(nest_manager, nest_blocks[nest_index + 1].content, FALSE).raised # ""
       THEN /\ nest_pc' = "raised"
            /\ UNCHANGED <<nest_index, nest_manager>>
       ELSE /\ nest_index' = nest_index + 1
            /\ nest_manager' =
                   RstFormatted(nest_manager, nest_blocks[nest_index + 1].content,
                                get_code_line(nest_manager, nest_blocks[nest_index + 1].content, FALSE).line)
            /\ UNCHANGED nest_pc
    /\ UNCHANGED <<nest_blocks, nest_text, nest_offset, nest_docstring,
                   varsPre, varsCli, varsDoc, varsTable, varsAdorn, varsCtx, varsRun, varsCache, varsWrap, varsDs, varsPy>>

(***************************************************************************)
(* The documents rendered: up to MaxNested top-level blocks, an rst file   *)
(* (line offset 0) or a docstring at a positive line offset.               *)
(***************************************************************************)
MaxNested == 3

\* the line of the file at which the docstring stands
DocstringLine == 3

NestedBlocks ==
    {[kind |-> "paragraph", head |-> <<>>, content |-> <<"a", "b">>],
     [kind |-> "directive", head |-> <<".", ".", " ", "n", "o", "t", "e", ":", ":">>, content |-> <<"c", "d">>],
     [kind |-> "code-block", head |-> <<".", ".", " ", "c", "o", "d", "e", "-", "b", "l", "o", "c", "k", ":", ":", " ", "r", "s", "t">>, content |-> <<"e", "f">>],
     [kind |-> "code-block", head |-> <<".", ".", " ", "c", "o", "d", "e", "-", "b", "l", "o", "c", "k", ":", ":", " ", "r", "s", "t">>, content |-> <<"c", "d">>]}

InitNest ==
    /\ IdlePre
    /\ IdleCli
    /\ IdleDoc
    /\ IdleTable
    /\ IdleAdorn
    /\ IdleCtx
    /\ IdleRun
    /\ IdleCache
    /\ IdleWrap
    /\ IdleDs
    /\ IdlePy
    /\ nest_pc = "read"
    /\ nest_blocks \in UNION {[1..n -> NestedBlocks] : n \in 1..MaxNested}
    /\ nest_text = Join(<<"\n">>, SourceLines(nest_blocks))
    /\ nest_docstring \in BOOLEAN
    /\ nest_offset = (IF nest_docstring THEN DocstringLine ELSE 0)
    /\ nest_manager = [original_text |-> <<>>, current_offset |-> 0, _in_docstring |-> FALSE]
    /\ nest_index = 0

NextNest == ParseEnclosing \/ FormatEnclosing \/ RenderParagraph \/ RenderDirective \/ RenderRstCodeBlock

SpecNest == InitNest /\ [][NextNest]_vars


(***************************************************************************)
(* The errors of a Python file.  The Visitor counts in its own             *)
(* error_count, the Manager it holds in another: the code formatters and   *)
(* _pre_process add to the Manager's, and leave_SimpleString adds the      *)
(* Manager's count to its own, and sets it to 0, behind a docstring that   *)
(* was formatted without an exception.                                     *)
(***************************************************************************)
\* Visitor.leave_SimpleString on the next docstring of the file
LeaveDocstring ==
    /\ py_pc = "visiting"
    /\ py_index < Len(py_docstrings)
    /\ py_visitor.raised = ""
    /\ py_index' = py_index + 1
    /\ py_visitor' = leave_SimpleString(py_visitor, py_docstrings[py_index + 1])
    /\ UNCHANGED <<py_pc, py_args, py_docstrings, py_errors,
                   varsPre, varsCli, varsDoc, varsTable, varsAdorn, varsCtx, varsRun, varsCache, varsWrap, varsDs, varsNest>>

\* _process_python behind the visit, and _format_file behind it
ReturnErrors ==
    /\ py_pc = "visiting"
    /\ py_index = Len(py_docstrings) \/ py_visitor.raised # ""
    /\ py_pc' = "returned"
    /\ py_errors' = Caught(ProcessPython(py_args, py_visitor)).error_count
    /\ UNCHANGED <<py_args, py_docstrings, py_index, py_visitor,
                   varsPre, varsCli, varsDoc, varsTable, varsAdorn, varsCtx, varsRun, varsCache, varsWrap, varsDs, varsNest>>

(***************************************************************************)
(* The files processed: up to MaxDocstrings docstrings, each of them tidy, *)
(* untidy, with a code block that cannot be formatted, or with a directive *)
(* whose content has structural errors.                                    *)
(***************************************************************************)
MaxDocstrings == 3

DocstringSources == {"tidy", "untidy", "code", "directive"}

InitPy ==
    /\ IdlePre
    /\ IdleCli
    /\ IdleDoc
    /\ IdleTable
    /\ IdleAdorn
    /\ IdleCtx
    /\ IdleRun
    /\ IdleCache
    /\ IdleWrap
    /\ IdleDs
    /\ IdleNest
    /\ py_pc = "visiting"
    /\ py_args \in [check : BOOLEAN, raw_output : {FALSE}]
    /\ py_docstrings \in UNION {[1..n -> DocstringSources] : n \in 1..MaxDocstrings}
    /\ py_index = 0
    /\ py_visitor = Visitor
    /\ py_errors = 0

NextPy == LeaveDocstring \/ ReturnErrors

SpecPy == InitPy /\ [][NextPy]_vars


(***************************************************************************)
(*                      Properties of the program                          *)
(***************************************************************************)

(***************************************************************************)
(* C5.  A line length below 4 is rejected before any file is formatted,    *)
(* whichever way it reaches the formatter (-l, the line-length key of      *)
(* [tool.docstrfmt], black's line length): no document is ever formatted   *)
(* at a line length below 4.                                               *)
(***************************************************************************)
C5_NoFormatBelowMinimum ==
    \A w \in formatted_at : w >= MinLineLength

(***************************************************************************)
(* C10.  After preprocessing, in the children of every node each maximal   *)
(* run of targets, whether a non-target sibling or the end of the children *)
(* ends it, is ordered by the targets' names with the anonymous targets    *)
(* first; targets with equal names keep their source order; no non-target  *)
(* child moves and the children stay the same multiset.                    *)
(***************************************************************************)
PosOf(kids, uid) == CHOOSE i \in 1..Len(kids) : kids[i].uid = uid

\* old: the children in source order without the diagnostics; new: after.
RunsSorted(old, new) ==
    /\ Len(new) = Len(old)
    /\ \A i \in 1..Len(old) :
          /\ (old[i].kind = "target") = (new[i].kind = "target")
          /\ old[i].kind # "target" => new[i].uid = old[i].uid
    /\ {new[i].uid : i \in 1..Len(new)} = {old[i].uid : i \in 1..Len(old)}
    /\ \A i, j \in 1..Len(new) :
          (/\ i < j
           /\ \A k \in i..j : new[k].kind = "target")
          => /\ ~ListLess(new[j].names, new[i].names)
             /\ new[j].names = <<>> => new[i].names = <<>>
             /\ new[i].names = new[j].names
                   => PosOf(old, new[i].uid) < PosOf(old, new[j].uid)
             \* the run is the same run of the source
             /\ \A k \in PosOf(old, new[i].uid)..PosOf(old, new[j].uid) :
                   old[k].kind = "target"

C10_TargetRunsSorted ==
    pre_pc = "preprocessed" =>
        /\ RunsSorted(StripSystemMessages(source_tree.kids), tree.kids)
        /\ \A i \in 1..Len(tree.kids) :
              tree.kids[i].kind = "section" =>
                  RunsSorted(
                      StripSystemMessages(
                          source_tree.kids[PosOf(source_tree.kids, tree.kids[i].uid)].kids),
                      tree.kids[i].kids)

\* A run of targets that ends with the children was reordered, and two
\* targets of equal name in one run kept their order.
C10_Witness ==
    /\ pre_pc = "preprocessed"
    /\ Len(tree.kids) >= 3
    /\ tree.kids[Len(tree.kids)].kind = "target"
    /\ tree.kids[Len(tree.kids)].uid # source_tree.kids[Len(source_tree.kids)].uid
    /\ \E i, j \in 1..Len(tree.kids) :
          /\ i < j
          /\ \A k \in i..j : tree.kids[k].kind = "target"
          /\ tree.kids[i].names = tree.kids[j].names
          /\ tree.kids[i].names # <<>>

(***************************************************************************)
(* What the properties of field lists speak of: the fields of the source,  *)
(* and the field lines of the output.                                      *)
(***************************************************************************)
Finished == doc_pc \in {"formatted", "raised"} /\ Len(passes) = 1

\* the fields of the field list as they were parsed
SourceFields == passes[1].tree.kids[1].kids

SourceName(f) == f.kids[1].kids[1].text
SourceKind(f) == split_at(SourceName(f), " ")[1]
SourceArgument(f) == split_at(SourceName(f), " ")[Len(split_at(SourceName(f), " "))]
HasInlineType(f) == Len(split_at(SourceName(f), " ")) >= 3
HasEmptyBody(f) == f.kids[2].kids = <<>>
SourceType(f) == f.kids[2].kids[1].kids[1].text

OutputLines == splitlines(output)

IsFieldLine(line) == line # <<>> /\ Head(line) = ":"

\* the name of a field line, the text between its first two colons
RECURSIVE UpToColon(_)
UpToColon(s) == IF s = <<>> \/ Head(s) = ":" THEN <<>> ELSE <<Head(s)>> \o UpToColon(Tail(s))

LineName(line) == UpToColon(Tail(line))

\* the rank of a field name in the rendering order: 1 param, 2 returns,
\* 3 rtype, 4 raises, 5 var, 6 all others
Rank(name) ==
    LET kind == MappedKind(split_at(name, " ")[1])
    IN IF kind = <<"p", "a", "r", "a", "m">> THEN 1
       ELSE IF kind = <<"r", "e", "t", "u", "r", "n", "s">> THEN 2
       ELSE IF kind = <<"r", "t", "y", "p", "e">> THEN 3
       ELSE IF kind = <<"r", "a", "i", "s", "e", "s">> THEN 4
       ELSE IF kind = <<"v", "a", "r">> THEN 5
       ELSE 6

\* the bucket of a field name: returns and rtype share one
Bucket(name) == IF Rank(name) <= 2 THEN 1 ELSE Rank(name) - 1

\* a field name with its kind replaced by the kind it stands for
Canonical(name) ==
    MappedKind(split_at(name, " ")[1])
       \o SubSeq(name, Len(split_at(name, " ")[1]) + 1, Len(name))

RECURSIVE Names(_)
Names(fields) ==
    IF fields = <<>> THEN <<>>
    ELSE <<Canonical(SourceName(Head(fields)))>> \o Names(Tail(fields))

RECURSIVE LineNames(_)
LineNames(lines) ==
    IF lines = <<>> THEN <<>>
    ELSE (IF IsFieldLine(Head(lines)) THEN <<LineName(Head(lines))>> ELSE <<>>)
            \o LineNames(Tail(lines))

HasTypeFields ==
    \E f \in 1..Len(SourceFields) : SourceKind(SourceFields[f]) \in {<<"t", "y", "p", "e">>, <<"v", "a", "r", "t", "y", "p", "e">>}

FieldLinePositions == {k \in 1..Len(OutputLines) : IsFieldLine(OutputLines[k])}

\* q is the field line that follows the field line p
NextFieldLine(p, q) ==
    /\ p \in FieldLinePositions /\ q \in FieldLinePositions /\ p < q
    /\ \A k \in (p + 1)..(q - 1) : k \notin FieldLinePositions

\* the number of blank lines right before line q
RECURSIVE BlankLinesBefore(_)
BlankLinesBefore(q) ==
    IF q > 1 /\ OutputLines[q - 1] = <<>> THEN 1 + BlankLinesBefore(q - 1) ELSE 0

(***************************************************************************)
(* C6.  A field list is rendered in five buckets in the order param,       *)
(* returns then rtype, raises, var, others; the fields of one bucket keep  *)
(* their source order; exactly one blank line stands between two           *)
(* consecutive buckets, none before the first bucket and none after the    *)
(* last one, whatever the bodies of the fields are.                        *)
(***************************************************************************)
C6_BucketsSeparatedByOneBlankLine ==
    (Finished /\ doc_pc = "formatted" /\ FieldLinePositions # {}) =>
        /\ IsFieldLine(OutputLines[1])
        /\ OutputLines[Len(OutputLines)] # <<>>
        /\ \A p, q \in FieldLinePositions :
              NextFieldLine(p, q) =>
                 /\ Rank(LineName(OutputLines[p])) <= Rank(LineName(OutputLines[q]))
                 /\ Bucket(LineName(OutputLines[p])) # Bucket(LineName(OutputLines[q]))
                       => BlankLinesBefore(q) = 1
        /\ ~HasTypeFields =>
              \A r \in 1..6 :
                 SelectSeq(LineNames(OutputLines), LAMBDA name : Rank(name) = r)
                    = SelectSeq(Names(SourceFields), LAMBDA name : Rank(name) = r)

HasFieldNamed(name) ==
    \E k \in FieldLinePositions : LineName(OutputLines[k]) = name

TypeFieldMerged(kind, type_kind) ==
    \A t \in 1..Len(SourceFields) :
        (/\ SourceKind(SourceFields[t]) = type_kind
         /\ ~HasEmptyBody(SourceFields[t])
         /\ \E f \in 1..Len(SourceFields) :
               SourceName(SourceFields[f])
                  = kind \o <<" ">> \o SourceArgument(SourceFields[t]))
        => /\ doc_pc = "formatted"
           /\ HasFieldNamed(kind \o <<" ">> \o SourceType(SourceFields[t]) \o <<" ">>
                            \o SourceArgument(SourceFields[t]))
           /\ ~HasFieldNamed(SourceName(SourceFields[t]))

IsTypeHintError(error) ==
    error # <<>> /\ error[2] = "Type hint is specified both in the field body and in the field"

\* one and the same field of this kind has an inline type and a type field
TypedTwice(kind, type_kind) ==
    \E f, t \in 1..Len(SourceFields) :
        /\ SourceKind(SourceFields[f]) = kind
        /\ HasInlineType(SourceFields[f])
        /\ SourceKind(SourceFields[t]) = type_kind
        /\ SourceArgument(SourceFields[t]) = SourceArgument(SourceFields[f])

(***************************************************************************)
(* C7.  A :type X: T field (resp. :vartype X: T) next to a :param X:       *)
(* (resp. :var X:) field without inline type ends up as the field named    *)
(* "param T X" (resp. "var T X"), the type field itself is gone, and T is  *)
(* in the output, wherever the type field stood in the source.             *)
(***************************************************************************)
C7_TypeFieldMergedIntoName ==
    (/\ Finished
     /\ ~TypedTwice(<<"p", "a", "r", "a", "m">>, <<"t", "y", "p", "e">>)
     /\ ~TypedTwice(<<"v", "a", "r">>, <<"v", "a", "r", "t", "y", "p", "e">>)
     /\ (doc_pc = "formatted" \/ IsTypeHintError(raised))) =>
        /\ TypeFieldMerged(<<"p", "a", "r", "a", "m">>, <<"t", "y", "p", "e">>)
        /\ TypeFieldMerged(<<"v", "a", "r">>, <<"v", "a", "r", "t", "y", "p", "e">>)

(***************************************************************************)
(* C8.  The error "Type hint is specified both in the field body and in    *)
(* the :type: field" is raised if and only if one and the same param       *)
(* (resp. var) field has an inline type and a :type: (resp. :vartype:)     *)
(* field of its name exists.                                               *)
(***************************************************************************)
C8_TypeHintErrorIffTypedTwice ==
    Finished =>
        /\ IsTypeHintError(raised)
              => (TypedTwice(<<"p", "a", "r", "a", "m">>, <<"t", "y", "p", "e">>) \/ TypedTwice(<<"v", "a", "r">>, <<"v", "a", "r", "t", "y", "p", "e">>))
        /\ (TypedTwice(<<"p", "a", "r", "a", "m">>, <<"t", "y", "p", "e">>) \/ TypedTwice(<<"v", "a", "r">>, <<"v", "a", "r", "t", "y", "p", "e">>))
              => doc_pc = "raised"

metadata_names == {<<"n", "o", "c", "o", "m", "m", "e", "n", "t", "s">>, <<"n", "o", "s", "e", "a", "r", "c", "h">>, <<"o", "r", "p", "h", "a", "n">>}

OneField(f) ==
    /\ (HasEmptyBody(f) /\ SourceName(f) \notin metadata_names)
          => raised = Raise("Empty field", SourceName(f))
    /\ (HasEmptyBody(f) /\ SourceName(f) \in metadata_names)
          => /\ doc_pc = "formatted"
             /\ OutputLines = << <<":">> \o SourceName(f) \o <<":">> >>
    /\ (~HasEmptyBody(f) /\ SourceName(f) \in metadata_names)
          => raised = Raise("Non-empty Sphinx metadata field", <<":">> \o SourceName(f) \o <<":">>)
    /\ (~HasEmptyBody(f) /\ SourceName(f) \notin metadata_names)
          => doc_pc = "formatted"

(***************************************************************************)
(* C9.  A field with an empty body raises the error "Empty :name: field"   *)
(* unless its name is exactly nocomments, nosearch or orphan, and then the *)
(* bare :name: line is emitted; a field of one of these three names with a *)
(* body raises the error "Non-empty Sphinx metadata field"; no other name  *)
(* is taken for a metadata field.                                          *)
(***************************************************************************)
C9_EmptyFieldsAndMetadataFields ==
    Finished =>
        /\ Len(SourceFields) = 1 => OneField(SourceFields[1])
        /\ (raised # <<>> /\ raised[2] = "Non-empty Sphinx metadata field")
              => \E f \in 1..Len(SourceFields) :
                    /\ SourceName(SourceFields[f]) \in metadata_names
                    /\ ~HasEmptyBody(SourceFields[f])

(***************************************************************************)
(* C2.  The string Manager.format_node returns ends with exactly one       *)
(* newline: the last line it renders is never blank.                       *)
(***************************************************************************)
C2_EndsWithOneNewline ==
    doc_pc = "formatted" =>
        /\ output[Len(output)] = "\n"
        /\ Len(output) >= 2 => output[Len(output) - 1] # "\n"


(***************************************************************************)
(* What the properties of whole documents speak of.                        *)
(***************************************************************************)
\* tests.node_eq: the same classes, equal attributes, as many children, and
\* the same words in every text
RECURSIVE node_eq(_, _)
node_eq(node1, node2) ==
    /\ node1.kind = node2.kind
    /\ IF node1.kind = "Text"
       THEN split(node1.text) = split(node2.text)
       ELSE /\ node1.attr = node2.attr
            /\ Len(node1.kids) = Len(node2.kids)
            /\ \A i \in 1..Len(node1.kids) : node_eq(node1.kids[i], node2.kids[i])

\* the words of a line behind the markers put in front of the wrapped text:
\* a bullet or "..", the label of a footnote, the name of a field
RECURSIVE BehindFieldName(_)
BehindFieldName(words) ==
    IF words = <<>> THEN <<>>
    ELSE IF Head(words)[Len(Head(words))] = ":" THEN Tail(words)
    ELSE BehindFieldName(Tail(words))

BehindLabel(words) ==
    IF words # <<>> /\ Head(Head(words)) = "[" /\ Head(words)[Len(Head(words))] = "]"
    THEN Tail(words) ELSE words

BehindMarker(words) ==
    IF words = <<>> THEN <<>>
    ELSE IF Head(words) = <<"-">> THEN Tail(words)
    ELSE IF Head(words) = <<".", ".">> THEN BehindLabel(Tail(words))
    ELSE IF Head(Head(words)) = ":" THEN BehindFieldName(words)
    ELSE words

(***************************************************************************)
(* C1.  Formatting is idempotent: the output of format_node at a width     *)
(* W >= 4 parses again, and formatting the parsed tree at W returns the    *)
(* very same string.                                                       *)
(***************************************************************************)
C1_FormatIsIdempotent ==
    /\ doc_pc # "rejected"
    /\ Len(passes) = 2 => passes[2].returned = passes[1].returned

(***************************************************************************)
(* C3.  Every line of the output of format_node at width W is at most W    *)
(* characters long, unless it holds a single word behind its markers       *)
(* (bullet, "..", footnote label, field name) and indentation.             *)
(***************************************************************************)
C3_LinesWithinWidth ==
    doc_pc = "formatted" =>
        \A i \in 1..Len(OutputLines) :
            Len(OutputLines[i]) > width
               => Len(BehindMarker(split(OutputLines[i]))) <= 1

(***************************************************************************)
(* C4.  The tree parsed from the output of format_node is equal, in the    *)
(* sense of node_eq, to the tree that was formatted: the same node kinds   *)
(* in the same order, as many children, the same words in every text.      *)
(***************************************************************************)
C4_RoundTripKeepsTheTree ==
    (Len(passes) = 1 /\ doc_pc \in {"parsed", "rejected"}) =>
        /\ doc_pc = "parsed"
        /\ node_eq(passes[1].tree, doc)


\* every reference among the children carries the target that follows it
\* and no other
ReferencesLinked(kids) ==
    \A i \in 1..Len(kids) :
        kids[i].kind = "reference" =>
            /\ (i < Len(kids) /\ kids[i + 1].kind = "target")
                  => kids[i].target = <<kids[i + 1].uid>>
            /\ kids[i].target # <<>>
                  => /\ i < Len(kids)
                     /\ kids[i + 1].kind = "target"
                     /\ kids[i + 1].uid = kids[i].target[1]

(***************************************************************************)
(* C11.  After preprocessing, every reference that is directly followed by *)
(* a sibling target carries exactly that target in its "target"            *)
(* attribute, and no reference carries a target that is not its next       *)
(* sibling.                                                                *)
(***************************************************************************)
C11_ReferencesCarryNextTarget ==
    pre_pc = "preprocessed" =>
        /\ ReferencesLinked(tree.kids)
        /\ \A i \in 1..Len(tree.kids) : ReferencesLinked(tree.kids[i].kids)


\* the diagnostics among the children that are neither INFO nor ignored
Offending(kids) ==
    SelectSeq(kids, LAMBDA c : /\ c.kind = "system_message"
                               /\ c.level # "INFO"
                               /\ c.msg \notin {"Title overline too short.",
                                                "Title underline too short."})

\* the first node of the walk with such children: the node itself, else the
\* first of its children that has some; <<>> when there is none
FirstOffender(node) ==
    IF Offending(node.kids) # <<>> THEN <<node>>
    ELSE IF \E i \in 1..Len(node.kids) : Offending(node.kids[i].kids) # <<>>
         THEN <<node.kids[CHOOSE i \in 1..Len(node.kids) :
                              /\ Offending(node.kids[i].kids) # <<>>
                              /\ \A j \in 1..(i - 1) : Offending(node.kids[j].kids) = <<>>]>>
         ELSE <<>>

RECURSIVE NoDiagnostics(_)
NoDiagnostics(node) ==
    /\ node.kind # "system_message"
    /\ \A i \in 1..Len(node.kids) : NoDiagnostics(node.kids[i])

Batch(offending) ==
    [i \in 1..Len(offending) |->
        [level |-> offending[i].level, message |-> offending[i].msg,
         uid |-> offending[i].uid]]

(***************************************************************************)
(* C12.  A node with diagnostics that are neither INFO nor one of the two  *)
(* ignored adornment messages makes preprocessing raise one batch with one *)
(* entry per such child, in child order, and error_count grows by their    *)
(* number; INFO and ignored diagnostics never raise and are removed: a     *)
(* preprocessing that returns leaves no diagnostic in the tree.            *)
(***************************************************************************)
C12_DiagnosticsRaiseOneBatch ==
    /\ pre_pc = "raised" =>
          /\ FirstOffender(source_tree) # <<>>
          /\ pre_errors = Batch(Offending(FirstOffender(source_tree)[1].kids))
          /\ error_count = Len(Offending(FirstOffender(source_tree)[1].kids))
    /\ pre_pc = "preprocessed" =>
          /\ FirstOffender(source_tree) = <<>>
          /\ NoDiagnostics(tree)
          /\ error_count = 0

\* Two offending diagnostics of one node were raised together, an ignored
\* and an INFO diagnostic between them were not.
C12_Witness ==
    /\ pre_pc = "raised"
    /\ Len(pre_errors) = 2
    /\ error_count = 2
    /\ \E i \in 1..Len(source_tree.kids) :
          /\ Len(source_tree.kids[i].kids) = 4
          /\ Len(Offending(source_tree.kids[i].kids)) = 2


(***************************************************************************)
(* The widths of table columns.                                            *)
(***************************************************************************)
\* the table run is over
TableFormatted == table_pc = "formatted"

\* Formatters.table took the compression branch
TableCompressed == TableFormatted /\ column_lengths # <<>>

\* C13: every column width the table solver allocates is at least 1, also
\* for a column whose cells are all empty, whether the natural widths fit
\* or the columns are compressed.
C13_ColumnWidthsAtLeastOne ==
    TableFormatted => \A c \in 1..Len(final_widths) : final_widths[c] >= 1

\* min(natural width, max(25, minimum width)), summed over the columns from c on
RECURSIVE FlooredWidths(_, _, _)
FlooredWidths(min_col_len, max_col_len, c) ==
    IF c > Len(max_col_len) THEN 0
    ELSE (IF max_col_len[c] <= Max(25, min_col_len[c])
          THEN max_col_len[c] ELSE Max(25, min_col_len[c]))
         + FlooredWidths(min_col_len, max_col_len, c + 1)

\* C14: when the natural widths do not all fit and granting each column
\* min(natural width, max(25, its minimum width)) fits the budget, the
\* widths granted, with one separator between two columns, stay within the
\* line width.
C14_CompressedTableWithinWidth ==
    (/\ TableCompressed
     /\ FlooredWidths(MinColLen(table, table_context), MaxColLen(table, table_context), 1)
            + Len(final_widths) - 1 <= table_context.width)
    => Sum(final_widths) + Len(final_widths) - 1 <= table_context.width

\* the part of the budget the columns before the k-th of `items` have used:
\* the natural widths of those that still fitted
RECURSIVE Consumed(_, _, _, _)
Consumed(items, k, max_col_len, total_width) ==
    IF k = 1 THEN 0
    ELSE IF Consumed(items, k - 1, max_col_len, total_width) + max_col_len[items[k - 1]]
                <= total_width
    THEN Consumed(items, k - 1, max_col_len, total_width) + max_col_len[items[k - 1]]
    ELSE Consumed(items, k - 1, max_col_len, total_width)

\* the even share of the k-th of `items`: what is left of the budget, divided
\* among the columns from the k-th on and rounded up
EvenShare(items, k, max_col_len, total_width) ==
    CHOOSE share \in 0..total_width :
        /\ share * (Len(items) - k + 1)
               >= total_width - Consumed(items, k, max_col_len, total_width)
        /\ (share - 1) * (Len(items) - k + 1)
               < total_width - Consumed(items, k, max_col_len, total_width)

\* a width the claim lets the compression branch grant a column
GrantedAsClaimed(granted, natural, minimum, share) ==
    \/ granted = natural
    \/ granted = share /\ share >= minimum
    \/ granted = 25 /\ share < 25 /\ share >= minimum

KthGrantedAsClaimed(items, k, lengths, min_col_len, max_col_len, total_width) ==
    GrantedAsClaimed(lengths[items[k]], max_col_len[items[k]], min_col_len[items[k]],
                     EvenShare(items, k, max_col_len, total_width))

AllGrantedAsClaimed(items, lengths, min_col_len, max_col_len, total_width) ==
    \A k \in 1..Len(items) :
        /\ lengths[items[k]] >= min_col_len[items[k]]
        /\ KthGrantedAsClaimed(items, k, lengths, min_col_len, max_col_len, total_width)

NotBelowMinimum(widths, min_col_len) ==
    \A c \in 1..Len(widths) : widths[c] >= min_col_len[c]

\* C15: no column is granted a width below its minimum width, and in the
\* compression branch every width granted is the natural width, the even
\* share where the share is at least the minimum, or 25 where the share is
\* below 25 and at least the minimum.
C15_NoColumnBelowItsMinimum ==
    /\ TableFormatted => NotBelowMinimum(final_widths, MinColLen(table, table_context))
    /\ TableCompressed =>
           AllGrantedAsClaimed(SortedColumns(MaxColLen(table, table_context)),
                               column_lengths, MinColLen(table, table_context),
                               MaxColLen(table, table_context),
                               TotalWidth(table, table_context))

\* a table of three columns was compressed: one column kept its natural
\* width, one was granted 25 and one an even share above 25
C15_Witness ==
    /\ TableCompressed
    /\ \E c, d, e \in 1..Len(column_lengths) :
           /\ column_lengths[c] = MaxColLen(table, table_context)[c]
           /\ column_lengths[d] = 25
           /\ column_lengths[d] < MaxColLen(table, table_context)[d]
           /\ column_lengths[e] > 25
           /\ column_lengths[e] < MaxColLen(table, table_context)[e]
           /\ final_widths[d] >= MinColLen(table, table_context)[d]
           /\ final_widths[e] >= MinColLen(table, table_context)[e]


(***************************************************************************)
(* The adornments of section titles.                                       *)
(***************************************************************************)
\* the titles of a tree in document order: their nodes and their depths
RECURSIVE TitlesUnder(_, _)
TitlesUnder(node, depth) ==
    IF node.kind = "title" THEN <<[node |-> node, depth |-> depth]>>
    ELSE Flatten([i \in 1..Len(node.kids) |->
                     TitlesUnder(node.kids[i],
                                 IF node.kids[i].kind = "section" THEN depth + 1 ELSE depth)])

\* the lines of a title adorned with the pair <<character, overline>>
TitleWith(title_text, pair) ==
    IF pair[2]
    THEN <<[i \in 1..(Len(title_text) + 2) |-> pair[1]], <<" ">> \o title_text,
           [i \in 1..(Len(title_text) + 2) |-> pair[1]]>>
    ELSE <<title_text, [i \in 1..Len(title_text) |-> pair[1]]>>

\* the output of a document of nothing but titles, each title adorned with
\* the pair of its depth and a blank line between two titles
RenderedWith(titles, pairs) ==
    Flatten([i \in 1..Len(titles) |->
                Join(<<"\n">>, TitleWith(titles[i].node.kids[1].text, pairs[titles[i].depth]))
                \o (IF i < Len(titles) THEN <<"\n", "\n">> ELSE <<"\n">>)])

Deepest(titles) == MaxOrZero([i \in 1..Len(titles) |-> titles[i].depth])

\* the run ended, with an output or an exception
AdornRunOver == adorn_pc \in {"printed", "raised"}

\* the run reported that one of the titles lies deeper than the `count`
\* adornments reach, with the title's line and depth, and printed nothing
ReportedTooDeep(titles, count) ==
    /\ adorn_pc = "raised"
    /\ adorn_output = <<>>
    /\ Len(adorn_reported) = 1
    /\ \E i \in 1..Len(titles) :
           /\ titles[i].depth > count
           /\ adorn_reported[1]
                  = Raise("IndexError", <<titles[i].node.attr.line, titles[i].depth, count>>)

\* the run printed every title with the pair of its depth, or reported a
\* title that lies too deep
AdornedWith(titles, pairs) ==
    IF Deepest(titles) <= Len(pairs)
    THEN adorn_pc = "printed" /\ adorn_output = RenderedWith(titles, pairs)
    ELSE ReportedTooDeep(titles, Len(pairs))

\* C16: under a Manager with a list of n adornment pairs every title of depth
\* d <= n is rendered with the d-th pair, whatever the source used, and a
\* title of depth d > n ends the run with an error that reports the title's
\* line, d and n.
C16_TitlesTakeThePairOfTheirDepth ==
    (AdornRunOver /\ adorn_manager.section_adornments # None)
    => AdornedWith(TitlesUnder(adorn_doc, 0), adorn_manager.section_adornments[1])

\* three titles of the depths 1, 2 and 3 were printed with the three pairs of
\* -s, none of which is the adornment the source used at that depth
C16_Witness ==
    /\ adorn_pc = "printed"
    /\ adorn_manager.section_adornments # None
    /\ Len(adorn_manager.section_adornments[1]) = 3
    /\ Len(TitlesUnder(adorn_doc, 0)) = 3
    /\ \A i \in 1..3 :
           /\ TitlesUnder(adorn_doc, 0)[i].depth = i
           /\ <<TitlesUnder(adorn_doc, 0)[i].node.attr.character,
                TitlesUnder(adorn_doc, 0)[i].node.attr.overline>>
                  # adorn_manager.section_adornments[1][i]
    /\ adorn_output = RenderedWith(TitlesUnder(adorn_doc, 0),
                                   adorn_manager.section_adornments[1])

\* C17: a run given both an adornment sequence by -s and the flag
\* --preserve-adornments renders the titles with the sequence of -s.
C17_SectionAdornmentsOverridePreserve ==
    (/\ AdornRunOver
     /\ adorn_argv.preserve_adornments
     /\ adorn_argv.section_adornments # SECTION_CHARS)
    => AdornedWith(TitlesUnder(adorn_doc, 0), adorn_params)


(***************************************************************************)
(* Contexts of siblings.                                                   *)
(***************************************************************************)
\* C18: rendering a child never changes a field of a context object that a
\* sibling is rendered with later: every item of a list is given the field
\* values the context of the list had when the list was entered.
C18_SiblingsSeeTheContextOfEntry ==
    \A i \in 1..Len(ctx_entry) : ctx_entry[i] = ctx_entry[1]



(***************************************************************************)
(* The run over several files.                                             *)
(***************************************************************************)
\* The processing of a file raises: reading it, parsing it or formatting it.
RaisedFor(args, file) ==
    \/ ~file.decodable
    \/ file.suffix = "py" /\ _process_python(args, file.text).raised # ""
    \/ file.suffix = "rst" /\ _process_rst(args, file.text).raised # ""

\* The task of the file was cancelled while its call of _format_file was still
\* waiting or running, that is before the file was formatted.
CancelledBeforeFormatted(file) == run_workers[file].at_cancel \in {"queued", "running"}

\* C19: a file whose parsing or formatting raises an error, or whose task is
\* cancelled before the file is formatted, holds on disk exactly the content
\* it held before the run.
C19_FailedOrCancelledFileIsUntouched ==
    \A file \in DOMAIN run_workers :
        RaisedFor(run_args, run_before[file]) \/ CancelledBeforeFormatted(file)
            => run_disk[file] = run_before[file]

\* The file is on the to-do list of the run: it got a task.
InToDo(file) == run_workers[file].state # "none"

TaskCancelled(file) == run_futures[file].state = "cancelled"

\* What the task of a file adds to the total: the count its call returned,
\* one if its call raised, nothing if it was cancelled or never made.
CountOf(state, result) ==
    IF state = "result" THEN result.error_count ELSE IF state = "exception" THEN 1 ELSE 0

RECURSIVE SumOfCounts(_)
SumOfCounts(count) ==
    IF count = 0 THEN 0
    ELSE SumOfCounts(count - 1)
         + CountOf(run_futures[count].state, _format_file(run_args, run_before[count]))

\* The call made for the file has run to its end, once, and the file holds
\* what that call wrote.
FormattedOnce(file, result) ==
    /\ run_workers[file].calls = 1
    /\ run_workers[file].state = (IF result.raised # "" THEN "raised" ELSE "returned")
    /\ run_disk[file] = AfterWrite(run_before[file], result.written)

CacheWrittenOnceAtTheEnd ==
    /\ run_totals.cache_writes <= 1
    /\ run_totals.cache_writes = 1 =>
           /\ run_pc = "done"
           /\ \A file \in DOMAIN run_futures : run_futures[file].state # "pending"

\* C20: in a run over several files no file is formatted twice, the cache
\* is written at most once and only when every task is done, and at the end
\* of the run every file of the to-do list whose task was not cancelled has
\* been formatted once and written, whatever happened to the other files,
\* and the total is the sum of the counts the calls returned plus one for
\* every call that raised.
C20_EveryTaskFormattedAndCounted ==
    run_pc \in {"loop", "done"} =>
        /\ \A file \in DOMAIN run_workers : run_workers[file].calls <= 1
        /\ CacheWrittenOnceAtTheEnd
        /\ run_pc = "done" =>
               /\ \A file \in DOMAIN run_workers :
                      InToDo(file) /\ ~TaskCancelled(file) =>
                          FormattedOnce(file, _format_file(run_args, run_before[file]))
               /\ run_totals.error_count = SumOfCounts(Len(run_before))

\* A run that ended without a signal, in which the call for one file raised
\* and another file was rewritten, counted and cached.
C20_Witness ==
    /\ run_pc = "done"
    /\ run_signals = 0
    /\ run_totals.error_count = 1
    /\ run_totals.cache_writes = 1
    /\ \E failed, other \in DOMAIN run_workers :
           /\ run_futures[failed].state = "exception"
           /\ run_futures[other].state = "result"
           /\ run_disk[other] # run_before[other]

\* The statement without its condition: at the end of the run every file of
\* the to-do list has been formatted exactly once.
C20_EveryFileFormattedExactlyOnce ==
    run_pc = "done" =>
        \A file \in DOMAIN run_workers : InToDo(file) => run_workers[file].calls = 1


(***************************************************************************)
(* Runs that share a cache directory.                                      *)
(***************************************************************************)
\* An earlier run recorded the file as done under the same output options.
RecordedUnderTheSameOptions(file, run) ==
    \E earlier \in 1..(run - 1) :
        /\ file \in cache_reports[earlier].cached
        /\ OutputOptions(cache_reports[earlier].options)
               = OutputOptions(cache_reports[run].options)

\* C21: a run skips a file only if an earlier run with the same output
\* options (line length, black mode, docstring trailing line, code-block
\* formatting, section adornments, preserve-adornments) recorded it as done.
C21_SkippedOnlyUnderTheSameOptions ==
    \A run \in 1..Len(cache_reports) :
        \A file \in cache_reports[run].skipped : RecordedUnderTheSameOptions(file, run)

\* Every file a run records as done holds, when the run ends, the formatted
\* text for the options of the run.
RecordedFilesAreFormatted ==
    \A run \in 1..Len(cache_reports) :
        \A file \in cache_reports[run].cached :
            cache_reports[run].files[file].text = FormattedFor(cache_reports[run].options)

\* A --check run repeated with the same parameters reports the same files and
\* ends with the same exit status.
RepeatedCheckReportsTheSame ==
    \A run \in 2..Len(cache_reports) :
        /\ cache_reports[run].options = cache_reports[run - 1].options
        /\ cache_reports[run].options.check
        => /\ cache_reports[run].misformatted_files = cache_reports[run - 1].misformatted_files
           /\ cache_reports[run].exit_code = cache_reports[run - 1].exit_code

\* C28: a file is recorded in the cache only if it is then correctly
\* formatted for the options of the run, and a --check run that is repeated
\* over unchanged files reports the same misformatted files and ends with the
\* same exit status.
C28_CachedFilesAreFormattedAndCheckRepeats ==
    RecordedFilesAreFormatted /\ RepeatedCheckReportsTheSame



(***************************************************************************)
(* C22.  Where the lines of successive children are joined with a blank    *)
(* separator line, the output never holds two blank lines in a row: after  *)
(* a child whose lines end with a blank line no separator is added.        *)
(***************************************************************************)
C22_NoDoubledBlankLine ==
    (Finished /\ doc_pc = "formatted") =>
        \A q \in 2..Len(OutputLines) : ~(OutputLines[q - 1] = <<>> /\ OutputLines[q] = <<>>)



(***************************************************************************)
(* The shape of a title in the output.                                     *)
(***************************************************************************)
AdornLines == splitlines(adorn_output)

\* the line is `count` times one and the same character
IsAdornmentOf(line, count) ==
    /\ Len(line) = count
    /\ count > 0
    /\ \A i \in 1..Len(line) : line[i] = line[1]

\* the lines from position p on are the title text over an underline of the
\* length of the text
Underlined(lines, p, title_text) ==
    /\ p + 1 <= Len(lines)
    /\ lines[p] = title_text
    /\ IsAdornmentOf(lines[p + 1], Len(title_text))

\* the lines from position p on are the title text, indented by one space,
\* between two equal lines two longer than the text
Overlined(lines, p, title_text) ==
    /\ p + 2 <= Len(lines)
    /\ IsAdornmentOf(lines[p], Len(title_text) + 2)
    /\ lines[p + 1] = <<" ">> \o title_text
    /\ lines[p + 2] = lines[p]

\* the titles from the i-th on stand in the lines from position p on, one
\* blank line between two of them, and nothing follows the last
RECURSIVE TitlesShaped(_, _, _, _)
TitlesShaped(lines, p, titles, i) ==
    IF i > Len(titles) THEN p = Len(lines) + 2
    ELSE \/ /\ Underlined(lines, p, titles[i].node.kids[1].text)
            /\ TitlesShaped(lines, p + 3, titles, i + 1)
         \/ /\ Overlined(lines, p, titles[i].node.kids[1].text)
            /\ TitlesShaped(lines, p + 4, titles, i + 1)

\* C23: a title whose text has length L is printed as the text over an
\* underline of exactly L adornment characters, or as the text indented by
\* one space between an overline and an equal underline of exactly L + 2
\* adornment characters, whatever the adornments of the source and of the
\* Manager are.
C23_AdornmentsFitTheTitleText ==
    adorn_pc = "printed" => TitlesShaped(AdornLines, 1, TitlesUnder(adorn_doc, 0), 1)

\* an output with an overlined title and an underlined title of another length
C23_Witness ==
    /\ adorn_pc = "printed"
    /\ \E p, q \in 1..Len(AdornLines) :
           /\ Overlined(AdornLines, p, TitleText(1))
           /\ Underlined(AdornLines, q, TitleText(2))



(***************************************************************************)
(* The words of _wrap_text as the joining rule has them.                   *)
(***************************************************************************)
ItemText(item) == IF IsMarkup(item) THEN Tail(item) ELSE item

StartsWithSpace(item) ==
    ~IsMarkup(item) /\ item # <<>> /\ item[1] \in unicode_whitespace

EndsWithSpace(item) ==
    ~IsMarkup(item) /\ item # <<>> /\ item[Len(item)] \in unicode_whitespace

\* a text and a markup stand side by side with no whitespace between them
Touching(before, item) ==
    /\ IsMarkup(before) # IsMarkup(item)
    /\ ~EndsWithSpace(before)
    /\ ~StartsWithSpace(item)

\* what stands between the two: nothing next to break-eligible punctuation
\* (and behind the empty text, which has brought its escape already), the
\* escape otherwise
Escape(before, item) ==
    IF IsMarkup(item)
    THEN (IF before = <<>> \/ before[Len(before)] \in pre_markup_break_chars
          THEN <<>> ELSE <<"\\", " ">>)
    ELSE (IF item # <<>> /\ item[1] \in post_markup_break_chars
          THEN <<>> ELSE <<"\\", " ">>)

\* the words so far with the words of the item: its first word joined to the
\* last word when the two items touch
WithItem(words, before, item, item_words) ==
    IF words # <<>> /\ Touching(before, item) /\ (item_words # <<>> \/ item = <<>>)
    THEN Append(SubSeq(words, 1, Len(words) - 1),
                words[Len(words)] \o Escape(before, item)
                \o (IF item_words = <<>> THEN <<>> ELSE Head(item_words)))
         \o (IF item_words = <<>> THEN <<>> ELSE Tail(item_words))
    ELSE words \o item_words

RECURSIVE JoinedWords(_, _, _)
JoinedWords(items, i, words) ==
    IF i > Len(items) THEN words
    ELSE JoinedWords(items, i + 1,
                     WithItem(words, IF i = 1 THEN <<" ">> ELSE items[i - 1], items[i],
                              split(ItemText(items[i]))))

\* C24: a text word and a markup word that touch are joined into one word,
\* with backslash-space between them unless the touching character of the
\* text is break-eligible punctuation; an empty text between two markups
\* brings one escape; words with whitespace between them are not joined.
C24_WordsJoinedWhereTheyTouch ==
    (wrap_pc = "wrapped" /\ wrap_width = None) =>
        wrap_lines = <<Join(<<" ">>, JoinedWords(wrap_items, 1, <<>>))>>


(***************************************************************************)
(* The greedy fill of _wrap_text.                                          *)
(***************************************************************************)
\* the width the k-th line may take: the first line gives first_line_len away
EffectiveWidth(k) ==
    IF k = 1 THEN wrap_width[1] - wrap_context.first_line_len ELSE wrap_width[1]

\* line k holds the first `count` of the words: more than one only if they
\* fit, and the word behind them would not have fit
HoldsGreedily(line, k, words, count) ==
    /\ line = Join(<<" ">>, SubSeq(words, 1, count))
    /\ count >= 2 => Len(line) <= EffectiveWidth(k)
    /\ count < Len(words) => Len(line) + 1 + Len(words[count + 1]) > EffectiveWidth(k)

\* the lines from the k-th on hold the words, each line filled greedily
RECURSIVE FilledGreedily(_, _, _)
FilledGreedily(lines, k, words) ==
    IF words = <<>> THEN k = Len(lines) + 1
    ELSE /\ k <= Len(lines)
         /\ \E count \in 1..Len(words) :
                /\ HoldsGreedily(lines[k], k, words, count)
                /\ FilledGreedily(lines, k + 1, SubSeq(words, count + 1, Len(words)))

\* C25: with subsequent_indent = 0 the lines hold the words in order, a word
\* joins the line exactly when the line with it stays within the effective
\* width, so no line of several words exceeds it, the first word of a line
\* would not have fit on the line before, a word longer than the width stands
\* alone, and first_line_len narrows the first line only.
C25_LinesFilledGreedily ==
    (wrap_pc = "wrapped" /\ wrap_width # None /\ wrap_context.subsequent_indent = 0) =>
        FilledGreedily(wrap_lines, 1, WordStrings(wrap_items))

\* a first line that first_line_len cut short, a later line of several
\* words and a word longer than the width on a line of its own
C25_Witness ==
    /\ wrap_pc = "wrapped"
    /\ wrap_width # None
    /\ wrap_context.first_line_len # 0
    /\ Len(wrap_lines) >= 3
    /\ Len(wrap_lines[1]) + 1 + Len(split(wrap_lines[2])[1]) <= wrap_width[1]
    /\ \E k \in 2..Len(wrap_lines) :
           Len(split(wrap_lines[k])) >= 2 /\ Len(wrap_lines[k]) <= wrap_width[1]
    /\ \E k \in 2..Len(wrap_lines) : Len(wrap_lines[k]) > wrap_width[1]

(***************************************************************************)
(* Enumerated lists.                                                       *)
(***************************************************************************)
\* the line begins with the given prefix
BeginsWith(line, prefix) ==
    Len(line) >= Len(prefix) /\ SubSeq(line, 1, Len(prefix)) = prefix

\* the enumerator the k-th item of the list is due, and the blank behind it
DuePrefix(node, k) ==
    make_enumerator(node.attr.start + k - 1, node.attr.enumtype) \o <<" ">>

\* C26: in an enumerated list of start value s and enumtype t, the k-th item
\* rendered is prefixed with the enumerator of ordinal s + k - 1 in format t
\* followed by "." (so the output holds a line beginning with it), for
\* every start value s >= 0.
C26_ItemsNumberedFromStart ==
    ctx_node.kind = "enumerated_list"
        => \A k \in 1..ctx_item :
               \E i \in 1..Len(ctx_lines) : BeginsWith(ctx_lines[i], DuePrefix(ctx_node, k))


(***************************************************************************)
(* The first paragraph of a docstring.                                     *)
(***************************************************************************)
\* the paragraphs rendered without a width
Unbounded == {i \in 1..Len(ds_widths) : ds_widths[i] = None}

\* C27: when a tree is formatted with is_docstring = True, exactly one
\* paragraph, the first rendered in document order, is emitted with
\* unbounded width, and every paragraph rendered after it is wrapped at a
\* width, for every shape of the tree.
C27_OnlyTheFirstParagraphUnbounded ==
    ds_pc = "formatted" /\ ds_docstring /\ ds_widths # <<>> => Unbounded = {1}


(***************************************************************************)
(* The Manager behind nested content.                                      *)
(***************************************************************************)
\* the Manager refers to the enclosing document
RefersToEnclosing ==
    /\ nest_manager.original_text = nest_text
    /\ nest_manager.current_offset = nest_offset
    /\ nest_manager._in_docstring = nest_docstring

\* C29: between the top-level blocks of a document, with the nested renders
\* of the blocks before finished, original_text, current_offset and
\* _in_docstring of the Manager refer to the enclosing document, and no
\* lookup of get_code_line made for the enclosing document fails with
\* "Code not found".
C29_NestedRenderRestoresTheManager ==
    /\ nest_pc = "rendering" => RefersToEnclosing
    /\ nest_pc # "raised"


(***************************************************************************)
(* The error count of a Python file.                                       *)
(***************************************************************************)
\* the errors found in the docstrings: one for a docstring whose formatting
\* raised the batched error, one for a code block that cannot be formatted
RECURSIVE ErrorsFound(_)
ErrorsFound(docstrings) ==
    IF docstrings = <<>> THEN 0
    ELSE (IF Head(docstrings) \in {"code", "directive"} THEN 1 ELSE 0)
         + ErrorsFound(Tail(docstrings))

\* C30: the error count reported for a Python file equals the number of
\* errors found in its docstrings, each counted once, whatever the order of
\* the failing and the succeeding docstrings.
C30_ErrorsCountedOnce ==
    py_pc = "returned" => py_errors = ErrorsFound(py_docstrings)


====
